---- MODULE Spec2Model ----
(***************************************************************************)
(* Model of the job_spy pipeline: the JobStateMachine of pipeline/fsm.py   *)
(* over its SQLite jobs table, with the normalizer, evaluator and planner  *)
(* agents it calls.  Text is a sequence of one-character strings, so that  *)
(* lower-casing, trimming and tokenising are computed as the code does.    *)
(***************************************************************************)
EXTENDS Integers, Sequences, FiniteSets, TLC

\* ------------------------------------------------------------------------
\* Text helpers (Python str methods used by the agents)
\* ------------------------------------------------------------------------

\* Python None where a str is expected (Optional[str])
None == <<"None">>

\* SQL NULL in a column of the jobs table
Null == <<>>

\* json.dumps of a payload: the column holds the text of one document
JsonDumps(v) == <<v>>

\* json.loads of a column that is not NULL
JsonLoads(col) == col[1]

UpperLetters == <<"A","B","C","D","E","F","G","H","I","J","K","L","M",
                  "N","O","P","Q","R","S","T","U","V","W","X","Y","Z">>

LowerLetters == <<"a","b","c","d","e","f","g","h","i","j","k","l","m",
                  "n","o","p","q","r","s","t","u","v","w","x","y","z">>

UpperSet == {UpperLetters[i] : i \in 1..26}

LowerSet == {LowerLetters[i] : i \in 1..26}

\* the lower-case letter of each upper-case letter
LowerOf == [c \in UpperSet |-> LowerLetters[CHOOSE i \in 1..26 : UpperLetters[i] = c]]

\* str.lower() on one character
LowerChar(c) == IF c \in UpperSet THEN LowerOf[c] ELSE c

\* str.lower()
Lower(s) == [i \in 1..Len(s) |-> LowerChar(s[i])]

\* whitespace as seen by str.strip()
IsSpace(c) == c = " "

\* a word character of the regular expression class \w
WordChars == UpperSet \cup LowerSet \cup {"0","1","2","3","4","5","6","7","8","9","_"}

IsWordChar(c) == c \in WordChars

RECURSIVE LStrip(_)
LStrip(s) == IF s # <<>> /\ IsSpace(Head(s)) THEN LStrip(Tail(s)) ELSE s

RECURSIVE RStrip(_)
RStrip(s) ==
    IF s # <<>> /\ IsSpace(s[Len(s)]) THEN RStrip(SubSeq(s, 1, Len(s) - 1)) ELSE s

\* str.strip()
Strip(s) == RStrip(LStrip(s))

\* sub in s  (substring test)
Contains(sub, s) ==
    \E i \in 1..(Len(s) - Len(sub) + 1) : SubSeq(s, i, i + Len(sub) - 1) = sub

\* x in list
InList(x, l) == \E i \in 1..Len(l) : l[i] = x

\* s.split(sep) for a one-character separator: every piece, empty ones too
RECURSIVE SplitOn(_, _, _)
SplitOn(s, sep, cur) ==
    IF s = <<>> THEN <<cur>>
    ELSE IF Head(s) = sep THEN <<cur>> \o SplitOn(Tail(s), sep, <<>>)
    ELSE SplitOn(Tail(s), sep, Append(cur, Head(s)))

\* s.replace(sep, '')
RemoveChar(s, sep) == SelectSeq(s, LAMBDA c : c # sep)

\* re.split(r"\W+", s): pieces between runs of non-word characters; a run at
\* either end of s leaves an empty piece there
RECURSIVE ReSplitNonWord(_, _, _)
ReSplitNonWord(s, cur, inRun) ==
    IF s = <<>> THEN <<cur>>
    ELSE IF IsWordChar(Head(s)) THEN ReSplitNonWord(Tail(s), Append(cur, Head(s)), FALSE)
    ELSE IF inRun THEN ReSplitNonWord(Tail(s), cur, TRUE)
    ELSE <<cur>> \o ReSplitNonWord(Tail(s), <<>>, TRUE)

\* list(dict.fromkeys(l)): first occurrences, in order
RECURSIVE Dedup(_, _)
Dedup(l, seen) ==
    IF l = <<>> THEN <<>>
    ELSE IF Head(l) \in seen THEN Dedup(Tail(l), seen)
    ELSE <<Head(l)>> \o Dedup(Tail(l), seen \cup {Head(l)})

\* ------------------------------------------------------------------------
\* agents/job_normalizer.py
\* ------------------------------------------------------------------------

\* sha1(...).hexdigest() is modelled as collision free: the digest is
\* identified by the byte string that was hashed
Sha1(bytes) == <<"sha1", bytes>>

\* mutant: the identity string is hashed without lower-casing
DeriveJobIdCaseSensitive(title, company, location) ==
    Sha1(company \o <<"|">> \o title \o <<"|">> \o location)

\* JobNormalizer._derive_job_id
DeriveJobId(title, company, location) ==
    Sha1(Lower(company \o <<"|">> \o title \o <<"|">> \o location))

\* JobNormalizer._extract_keywords
ExtractKeywords(description) ==
    Dedup(SelectSeq(ReSplitNonWord(Lower(description), <<>>, FALSE),
                    LAMBDA t : Len(t) >= 3), {})

Str_intern    == <<"i","n","t","e","r","n">>
Str_junior    == <<"j","u","n","i","o","r">>
Str_senior    == <<"s","e","n","i","o","r">>
Str_lead      == <<"l","e","a","d">>
Str_principal == <<"p","r","i","n","c","i","p","a","l">>
Str_manager   == <<"m","a","n","a","g","e","r">>
Str_director  == <<"d","i","r","e","c","t","o","r">>
Str_remote    == <<"r","e","m","o","t","e">>
Str_contract  == <<"c","o","n","t","r","a","c","t">>

\* seniority inference inside JobNormalizer.normalize
Seniority(title) ==
    LET lt == Lower(title) IN
    IF Contains(Str_intern, lt) \/ Contains(Str_junior, lt) THEN "junior"
    ELSE IF Contains(Str_senior, lt) \/ Contains(Str_lead, lt)
            \/ Contains(Str_principal, lt) THEN "senior"
    ELSE IF Contains(Str_manager, lt) \/ Contains(Str_director, lt) THEN "mid"
    ELSE "unknown"

\* JobNormalizer.normalize: the Job dataclass as a record
Normalize(raw) ==
    LET title    == Strip(raw.title)
        company  == Strip(raw.company)
        location == Strip(raw.location)
        keywords == ExtractKeywords(raw.description)
    IN [ job_id           |-> DeriveJobId(title, company, location),
         title            |-> title,
         company          |-> company,
         location         |-> IF location # <<>> THEN location ELSE Str_remote,
         employment_type  |-> raw.employment_type,
         seniority        |-> Seniority(title),
         keywords         |-> keywords,
         responsibilities |-> keywords,
         requirements     |-> keywords,
         source_url       |-> raw.source_url ]

\* ------------------------------------------------------------------------
\* agents/job_evaluator.py
\* ------------------------------------------------------------------------

\* the lexical variants of one must-have keyword
Variations(kw) ==
    IF InList("-", kw)
    THEN LET parts == SplitOn(kw, "-", <<>>)
         IN {kw, RemoveChar(kw, "-")} \cup {parts[i] : i \in 1..Len(parts)}
    ELSE {kw}

\* mutant: a variant counts when it occurs inside a job keyword
KeywordMatchedSubstring(kw, job_keywords) ==
    \E v \in Variations(kw) :
        v # <<>> /\ \E i \in 1..Len(job_keywords) : Contains(v, job_keywords[i])

\* "if v and v in job_keywords" over the variants of kw
KeywordMatched(kw, job_keywords) ==
    \E v \in Variations(kw) : v # <<>> /\ InList(v, job_keywords)

\* round(hits / total, 2) in hundredths.  100*hits/total lies half way
\* between two integers only when 8 divides total; for total = 8 the
\* quotient is a binary fraction, which Python rounds half to even.
Round2(hits, total) ==
    LET q == (100 * hits) \div total
        r == (100 * hits) % total
    IN IF 2 * r < total THEN q
       ELSE IF 2 * r > total THEN q + 1
       ELSE IF q % 2 = 0 THEN q ELSE q + 1

\* mutant: the score is looked at before the hard filter
RecommendationScoreFirst(passes, hits, total) ==
    IF 10 * hits >= 7 * total THEN "apply"
    ELSE IF ~passes \/ hits = 0 THEN "skip"
    ELSE IF 10 * hits >= 4 * total /\ 10 * hits < 7 * total THEN "human_review"
    ELSE "skip"

\* mutant: apply is recommended from a score of 0.5 on
RecommendationApplyFromHalf(passes, hits, total) ==
    IF ~passes \/ hits = 0 THEN "skip"
    ELSE IF 10 * hits >= 5 * total THEN "apply"
    ELSE IF 10 * hits >= 4 * total /\ 10 * hits < 7 * total THEN "human_review"
    ELSE "skip"

\* mutant: the ladder is applied to the score after rounding
RecommendationOnRounded(passes, hits, total) ==
    IF ~passes \/ hits = 0 THEN "skip"
    ELSE IF Round2(hits, total) >= 70 THEN "apply"
    ELSE IF Round2(hits, total) >= 40 /\ Round2(hits, total) < 70 THEN "human_review"
    ELSE "skip"

\* the recommendation ladder of JobEvaluator.evaluate, score = hits / total
Recommendation(passes, hits, total) ==
    IF ~passes \/ hits = 0 THEN "skip"
    ELSE IF 10 * hits >= 7 * total THEN "apply"
    ELSE IF 10 * hits >= 4 * total /\ 10 * hits < 7 * total THEN "human_review"
    ELSE "skip"

\* mutant: every must-have is reported as a gap
GapsOfAll(must_have, job_keywords) == must_have

\* the gaps list of evaluate: the must-haves (lower-cased) that did not match,
\* in profile order
GapsOf(must_have, job_keywords) ==
    SelectSeq(must_have, LAMBDA kw : ~KeywordMatched(kw, job_keywords))

\* the strengths list of evaluate: the must-haves (lower-cased) that matched,
\* in profile order
StrengthsOf(must_have, job_keywords) ==
    SelectSeq(must_have, LAMBDA kw : KeywordMatched(kw, job_keywords))

\* mutant: the location is compared as written
PassesHardFilterCaseSensitive(job, prof) ==
    LET allowed == prof.allowed_locations
    IN IF allowed # <<>> THEN InList(job.location, allowed) ELSE TRUE

\* the location filter of evaluate; allowed_locations = <<>> stands for a
\* profile whose hard_filters hold no location list or an empty one ("if
\* allowed_locations:" is false for both)
PassesHardFilter(job, prof) ==
    LET allowed == prof.allowed_locations
    IN IF allowed # <<>>
       THEN InList(Lower(job.location), [i \in 1..Len(allowed) |-> Lower(allowed[i])])
       ELSE TRUE

\* mutant: a score of exactly 0.5 is flagged low_match too
RiskFlagsLowAtHalf(job, hits, total) ==
    (IF job.employment_type # None /\ job.employment_type # <<>>
        /\ Contains(Str_contract, Lower(job.employment_type))
     THEN <<"contract">> ELSE <<>>)
    \o (IF 2 * hits <= total THEN <<"low_match">> ELSE <<>>)

\* the risk flags of evaluate, score = hits / total
RiskFlags(job, hits, total) ==
    (IF job.employment_type # None /\ job.employment_type # <<>>
        /\ Contains(Str_contract, Lower(job.employment_type))
     THEN <<"contract">> ELSE <<>>)
    \o (IF 2 * hits < total THEN <<"low_match">> ELSE <<>>)

\* JobEvaluator.evaluate: the Decision dataclass as a record
Evaluate(job, prof) ==
    LET must_have    == [i \in 1..Len(prof.must_have) |-> Lower(prof.must_have[i])]
        job_keywords == [i \in 1..Len(job.keywords) |-> Lower(job.keywords[i])]
        strengths    == StrengthsOf(must_have, job_keywords)
        gaps         == GapsOf(must_have, job_keywords)
        hits         == IF must_have = <<>> THEN 1 ELSE Len(strengths)
        total        == IF must_have = <<>> THEN 1 ELSE Len(must_have)
        passes       == PassesHardFilter(job, prof)
    IN [ match_score      |-> Round2(hits, total),
         pass_hard_filter |-> passes,
         strengths        |-> strengths,
         gaps             |-> gaps,
         risk_flags       |-> RiskFlags(job, hits, total),
         recommendation   |-> Recommendation(passes, hits, total) ]

\* ------------------------------------------------------------------------
\* agents/application_planner.py
\* ------------------------------------------------------------------------

\* mutant: the planner asks for a score of 0.9
PlannerThresholdHigh == 9 * 10

\* ApplicationPlanner.__init__ default threshold 0.5, in hundredths
PlannerThreshold == 50

\* an empty dict
EmptyDict == <<>>

\* ApplicationPlan(apply=False) with the dataclass defaults
EmptyPlan ==
    [ apply            |-> FALSE,
      resume_strategy  |-> EmptyDict,
      cover_letter     |-> EmptyDict,
      automation_level |-> "manual" ]

\* mutant: the recommendation of the decision is not looked at
PlanWithThresholdAnyRecommendation(job, decision, inventory, threshold) ==
    IF ~decision.pass_hard_filter THEN EmptyPlan
    ELSE IF decision.match_score < threshold THEN EmptyPlan
    ELSE LET pool == job.keywords \o decision.strengths
             lowered == [i \in 1..Len(pool) |-> Lower(pool[i])]
         IN [ apply            |-> TRUE,
              resume_strategy  |-> [ use_core |-> TRUE,
                                     highlight_modules |->
                                        SelectSeq(inventory.modules,
                                                  LAMBDA m : InList(Lower(m), lowered)) ],
              cover_letter     |-> [ required |-> TRUE, style |-> "formal" ],
              automation_level |-> "manual" ]

\* ApplicationPlanner.plan of a planner constructed with this threshold (in
\* hundredths)
PlanWithThreshold(job, decision, inventory, threshold) ==
    IF ~decision.pass_hard_filter THEN EmptyPlan
    ELSE IF decision.recommendation # "apply" THEN EmptyPlan
    ELSE IF decision.match_score < threshold THEN EmptyPlan
    ELSE LET pool == job.keywords \o decision.strengths
             lowered == [i \in 1..Len(pool) |-> Lower(pool[i])]
         IN [ apply            |-> TRUE,
              resume_strategy  |-> [ use_core |-> TRUE,
                                     highlight_modules |->
                                        SelectSeq(inventory.modules,
                                                  LAMBDA m : InList(Lower(m), lowered)) ],
              cover_letter     |-> [ required |-> TRUE, style |-> "formal" ],
              automation_level |-> "manual" ]

\* self.planner.plan of the engine: its planner is ApplicationPlanner()
Plan(job, decision, inventory) ==
    PlanWithThreshold(job, decision, inventory, PlannerThreshold)

\* ------------------------------------------------------------------------
\* pipeline/states.py and the jobs table
\* ------------------------------------------------------------------------

\* JobState
JobState ==
    {"FETCHED", "NORMALIZED", "EVALUATED", "SKIPPED", "HUMAN_REVIEW",
     "PLANNED", "MATERIAL_READY", "SUBMITTED"}

\* the row written by the INSERT of add_jobs; the other columns are NULL
NewRow(job_id, raw) ==
    [ job_id          |-> job_id,
      raw_data        |-> JsonDumps(raw),
      state           |-> "FETCHED",
      normalized_data |-> Null,
      decision_data   |-> Null,
      plan_data       |-> Null ]

\* SELECT job_id FROM jobs WHERE job_id = ?  finds a row
HasJob(js, job_id) == \E i \in 1..Len(js) : js[i].job_id = job_id

\* the jobs table holds one row per job_id: a row with this job_id is
\* already there, and the table refuses a second one
PrimaryKeyTaken(js, job_id) == \E i \in 1..Len(js) : js[i].job_id = job_id

\* mutant: INSERT OR REPLACE, a row with the same job_id is replaced by the
\* new one
InsertStatementOrReplace(js, job_id, raw) ==
    IF PrimaryKeyTaken(js, job_id)
    THEN [ jobs  |-> [i \in 1..Len(js) |->
                        IF js[i].job_id = job_id THEN NewRow(job_id, raw) ELSE js[i]],
           error |-> FALSE ]
    ELSE [jobs |-> Append(js, NewRow(job_id, raw)), error |-> FALSE]

\* the INSERT of add_jobs on the table as it is when the statement runs: the
\* row is appended, or the statement fails (sqlite3.IntegrityError) and
\* changes nothing
InsertStatement(js, job_id, raw) ==
    IF PrimaryKeyTaken(js, job_id)
    THEN [jobs |-> js, error |-> TRUE]
    ELSE [jobs |-> Append(js, NewRow(job_id, raw)), error |-> FALSE]

\* mutant: a posting that is already stored refreshes the stored raw_data
AddOneRefreshesRaw(js, raw) ==
    LET tmp_job == Normalize(raw)
    IN IF ~HasJob(js, tmp_job.job_id)
       THEN InsertStatement(js, tmp_job.job_id, raw).jobs
       ELSE [i \in 1..Len(js) |->
               IF js[i].job_id = tmp_job.job_id
               THEN [js[i] EXCEPT !.raw_data = JsonDumps(raw)] ELSE js[i]]

\* mutant: the row is keyed by the hash of the identity string as written,
\* not lower-cased
AddOneKeyedCaseSensitive(js, raw) ==
    LET job_id == DeriveJobIdCaseSensitive(Strip(raw.title), Strip(raw.company),
                                           Strip(raw.location))
    IN IF ~HasJob(js, job_id)
       THEN InsertStatement(js, job_id, raw).jobs
       ELSE js

\* one iteration of the loop of add_jobs
AddOne(js, raw) ==
    LET tmp_job == Normalize(raw)
    IN IF ~HasJob(js, tmp_job.job_id)
       THEN InsertStatement(js, tmp_job.job_id, raw).jobs
       ELSE js

\* JobStateMachine.add_jobs: the loop over raw_jobs, then the commit
RECURSIVE AddJobsTo(_, _)
AddJobsTo(js, raw_jobs) ==
    IF raw_jobs = <<>> THEN js
    ELSE AddJobsTo(AddOne(js, Head(raw_jobs)), Tail(raw_jobs))

\* mutant: ORDER BY rowid DESC, the newest open row comes first
GetNextRowNewestFirst(js) ==
    LET open == {i \in 1..Len(js) : js[i].state \notin {"SUBMITTED", "SKIPPED"}}
    IN IF open = {} THEN 0 ELSE CHOOSE i \in open : \A j \in open : i >= j

\* mutant: the SELECT leaves out the rows at PLANNED as well
GetNextRowNotPlanned(js) ==
    LET open == {i \in 1..Len(js) : js[i].state \notin {"SUBMITTED", "SKIPPED", "PLANNED"}}
    IN IF open = {} THEN 0 ELSE CHOOSE i \in open : \A j \in open : i <= j

\* JobStateMachine._get_next_row: the rowid of the first row whose state is
\* neither SUBMITTED nor SKIPPED, 0 when the SELECT returns no row
GetNextRow(js) ==
    LET open == {i \in 1..Len(js) : js[i].state \notin {"SUBMITTED", "SKIPPED"}}
    IN IF open = {} THEN 0 ELSE CHOOSE i \in open : \A j \in open : i <= j

\* mutant: the UPDATE has lost its WHERE clause
UpdateJobNoWhere(js, job_id, fields) ==
    IF DOMAIN fields = {} THEN js
    ELSE [i \in 1..Len(js) |->
            [c \in DOMAIN js[i] |-> IF c \in DOMAIN fields THEN fields[c] ELSE js[i][c]]]

\* mutant: the UPDATE sets the state column only
UpdateJobStateOnly(js, job_id, fields) ==
    IF DOMAIN fields = {} THEN js
    ELSE [i \in 1..Len(js) |->
            IF js[i].job_id = job_id
            THEN [c \in DOMAIN js[i] |->
                    IF c \in DOMAIN fields /\ c = "state" THEN fields[c] ELSE js[i][c]]
            ELSE js[i]]

\* JobStateMachine._update_job: UPDATE jobs SET k = ?, ... WHERE job_id = ?
\* followed by commit; all the columns of the call change in one statement
UpdateJob(js, job_id, fields) ==
    IF DOMAIN fields = {} THEN js
    ELSE [i \in 1..Len(js) |->
            IF js[i].job_id = job_id
            THEN [c \in DOMAIN js[i] |-> IF c \in DOMAIN fields THEN fields[c] ELSE js[i][c]]
            ELSE js[i]]

\* the engine's connection with no open transaction
CleanConn == [dirty |-> FALSE, view |-> <<>>]

\* the table as the statements of a connection read it: the committed rows,
\* or the rows as its own open transaction has left them
ConnView(committed, c) == IF c.dirty THEN c.view ELSE committed

\* mutant: the commit is missing, the changes stay in the open transaction
ConnCommitMissing(committed, view) ==
    [jobs |-> committed, conn |-> [dirty |-> TRUE, view |-> view]]

\* self.conn.commit() at the end of add_jobs and of _update_job: the rows as
\* the connection sees them become the committed table
ConnCommit(committed, view) == [jobs |-> view, conn |-> CleanConn]

\* JobStateMachine._init_db on an existing database: the schema script
\* creates the tables "if they do not exist", the rows stay
InitDb(js) == js

\* ------------------------------------------------------------------------
\* pipeline/fsm.py: JobStateMachine.step
\* ------------------------------------------------------------------------

\* the collaborators step() calls
Collaborators ==
    {"normalizer", "evaluator", "planner", "resume_modifier", "cover_letter_writer",
     "request_confirmation", "fill_form", "upload_resume", "upload_cover_letter",
     "take_screenshot"}

\* the collaborators of apply/ that report success by a boolean
SubmissionCollaborators == {"fill_form", "upload_resume", "upload_cover_letter"}

\* a call of a collaborator whose return value step() does not test
Call(who) == [kind |-> "call", who |-> who, on_false |-> "ignore"]

\* a call of _update_job
Update(fields) == [kind |-> "update", fields |-> fields]

\* mutant: SUBMITTED is written before the submission collaborators run
MaterialReadyProgramCommitFirst(plan, confirm) ==
    IF ~plan.apply THEN << Update([state |-> "SKIPPED"]) >>
    ELSE << Call("resume_modifier"), Call("cover_letter_writer"),
            Call("request_confirmation") >>
         \o (IF confirm
             THEN << Update([state |-> "SUBMITTED"]),
                     Call("fill_form"), Call("upload_resume"),
                     Call("upload_cover_letter"), Call("take_screenshot") >>
             ELSE << Update([state |-> "HUMAN_REVIEW"]) >>)

\* mutant: the record is not marked SUBMITTED after the submission
MaterialReadyProgramNotMarked(plan, confirm) ==
    IF ~plan.apply THEN << Update([state |-> "SKIPPED"]) >>
    ELSE << Call("resume_modifier"), Call("cover_letter_writer"),
            Call("request_confirmation") >>
         \o (IF confirm
             THEN << Call("fill_form"), Call("upload_resume"),
                     Call("upload_cover_letter"), Call("take_screenshot") >>
             ELSE << Update([state |-> "HUMAN_REVIEW"]) >>)

\* mutant: the cover letter is uploaded before the resume
MaterialReadyProgramUploadsSwapped(plan, confirm) ==
    IF ~plan.apply THEN << Update([state |-> "SKIPPED"]) >>
    ELSE << Call("resume_modifier"), Call("cover_letter_writer"),
            Call("request_confirmation") >>
         \o (IF confirm
             THEN << Call("fill_form"), Call("upload_cover_letter"),
                     Call("upload_resume"), Call("take_screenshot"),
                     Update([state |-> "SUBMITTED"]) >>
             ELSE << Update([state |-> "HUMAN_REVIEW"]) >>)

\* mutant: the answer of request_confirmation is not tested
MaterialReadyProgramAnswerIgnored(plan, confirm) ==
    IF ~plan.apply THEN << Update([state |-> "SKIPPED"]) >>
    ELSE << Call("resume_modifier"), Call("cover_letter_writer"),
            Call("request_confirmation"),
            Call("fill_form"), Call("upload_resume"),
            Call("upload_cover_letter"), Call("take_screenshot"),
            Update([state |-> "SUBMITTED"]) >>

\* mutant: plan.apply is tested after the materials were generated
MaterialReadyProgramLateCheck(plan, confirm) ==
    << Call("resume_modifier"), Call("cover_letter_writer") >>
    \o (IF ~plan.apply THEN << Update([state |-> "SKIPPED"]) >>
        ELSE << Call("request_confirmation") >>
             \o (IF confirm
                 THEN << Call("fill_form"), Call("upload_resume"),
                         Call("upload_cover_letter"), Call("take_screenshot"),
                         Update([state |-> "SUBMITTED"]) >>
                 ELSE << Update([state |-> "HUMAN_REVIEW"]) >>))

\* the MATERIAL_READY branch of step(): its calls and its write, in order;
\* confirm is the answer of request_confirmation
MaterialReadyProgram(plan, confirm) ==
    IF ~plan.apply THEN << Update([state |-> "SKIPPED"]) >>
    ELSE << Call("resume_modifier"), Call("cover_letter_writer"),
            Call("request_confirmation") >>
         \o (IF confirm
             THEN << Call("fill_form"), Call("upload_resume"),
                     Call("upload_cover_letter"), Call("take_screenshot"),
                     Update([state |-> "SUBMITTED"]) >>
             ELSE << Update([state |-> "HUMAN_REVIEW"]) >>)

\* mutant: the record is routed by the score of the decision
RouteProgramByScore(decision) ==
    IF decision.match_score = 0 THEN << Update([state |-> "SKIPPED"]) >>
    ELSE IF decision.match_score >= 70 THEN << Update([state |-> "PLANNED"]) >>
    ELSE IF decision.match_score >= 40 THEN << Update([state |-> "HUMAN_REVIEW"]) >>
    ELSE << Update([state |-> "SKIPPED"]) >>

\* the EVALUATED branch of step()
RouteProgram(decision) ==
    IF decision.recommendation = "skip" THEN << Update([state |-> "SKIPPED"]) >>
    ELSE IF decision.recommendation = "human_review"
         THEN << Update([state |-> "HUMAN_REVIEW"]) >>
    ELSE << Update([state |-> "PLANNED"]) >>

\* mutant: payload and stage are written by two _update_job calls
StepProgramTwoWrites(row, prof, inventory, confirm) ==
    LET raw_data        == JsonLoads(row.raw_data)
        normalized_data == IF row.normalized_data # Null
                           THEN JsonLoads(row.normalized_data) ELSE None
        decision_data   == IF row.decision_data # Null
                           THEN JsonLoads(row.decision_data) ELSE None
        plan_data       == IF row.plan_data # Null
                           THEN JsonLoads(row.plan_data) ELSE None
    IN
    CASE row.state = "FETCHED" ->
            << Call("normalizer"),
               Update([normalized_data |-> JsonDumps(Normalize(raw_data))]),
               Update([state |-> "NORMALIZED"]) >>
      [] row.state = "NORMALIZED" ->
            << Call("evaluator"),
               Update([decision_data |-> JsonDumps(Evaluate(normalized_data, prof))]),
               Update([state |-> "EVALUATED"]) >>
      [] row.state = "EVALUATED" -> RouteProgram(decision_data)
      [] row.state = "PLANNED" ->
            << Call("planner"),
               Update([plan_data |-> JsonDumps(Plan(normalized_data, decision_data, inventory))]),
               Update([state |-> "MATERIAL_READY"]) >>
      [] row.state = "MATERIAL_READY" -> MaterialReadyProgram(plan_data, confirm)
      [] OTHER -> << >>

\* mutant: the planning step advances the record and drops the plan
StepProgramPlanNotStored(row, prof, inventory, confirm) ==
    LET raw_data        == JsonLoads(row.raw_data)
        normalized_data == IF row.normalized_data # Null
                           THEN JsonLoads(row.normalized_data) ELSE None
        decision_data   == IF row.decision_data # Null
                           THEN JsonLoads(row.decision_data) ELSE None
        plan_data       == IF row.plan_data # Null
                           THEN JsonLoads(row.plan_data) ELSE None
    IN
    CASE row.state = "FETCHED" ->
            << Call("normalizer"),
               Update([normalized_data |-> JsonDumps(Normalize(raw_data)),
                       state |-> "NORMALIZED"]) >>
      [] row.state = "NORMALIZED" ->
            << Call("evaluator"),
               Update([decision_data |-> JsonDumps(Evaluate(normalized_data, prof)),
                       state |-> "EVALUATED"]) >>
      [] row.state = "EVALUATED" -> RouteProgram(decision_data)
      [] row.state = "PLANNED" ->
            << Call("planner"), Update([state |-> "MATERIAL_READY"]) >>
      [] row.state = "MATERIAL_READY" -> MaterialReadyProgram(plan_data, confirm)
      [] OTHER -> << >>

\* mutant: a row resting at HUMAN_REVIEW is taken up again and sent on to
\* PLANNED
StepProgramReviewResumes(row, prof, inventory, confirm) ==
    LET raw_data        == JsonLoads(row.raw_data)
        normalized_data == IF row.normalized_data # Null
                           THEN JsonLoads(row.normalized_data) ELSE None
        decision_data   == IF row.decision_data # Null
                           THEN JsonLoads(row.decision_data) ELSE None
        plan_data       == IF row.plan_data # Null
                           THEN JsonLoads(row.plan_data) ELSE None
    IN
    CASE row.state = "FETCHED" ->
            << Call("normalizer"),
               Update([normalized_data |-> JsonDumps(Normalize(raw_data)),
                       state |-> "NORMALIZED"]) >>
      [] row.state = "NORMALIZED" ->
            << Call("evaluator"),
               Update([decision_data |-> JsonDumps(Evaluate(normalized_data, prof)),
                       state |-> "EVALUATED"]) >>
      [] row.state = "EVALUATED" -> RouteProgram(decision_data)
      [] row.state = "PLANNED" ->
            << Call("planner"),
               Update([plan_data |-> JsonDumps(Plan(normalized_data, decision_data, inventory)),
                       state |-> "MATERIAL_READY"]) >>
      [] row.state = "MATERIAL_READY" -> MaterialReadyProgram(plan_data, confirm)
      [] row.state = "HUMAN_REVIEW" -> << Update([state |-> "PLANNED"]) >>
      [] OTHER -> << >>

\* the body of step() after the row was read: the columns are decoded,
\* then come the collaborator calls and the _update_job call of the branch
\* taken, in program order
StepProgram(row, prof, inventory, confirm) ==
    LET raw_data        == JsonLoads(row.raw_data)
        normalized_data == IF row.normalized_data # Null
                           THEN JsonLoads(row.normalized_data) ELSE None
        decision_data   == IF row.decision_data # Null
                           THEN JsonLoads(row.decision_data) ELSE None
        plan_data       == IF row.plan_data # Null
                           THEN JsonLoads(row.plan_data) ELSE None
    IN
    CASE row.state = "FETCHED" ->
            << Call("normalizer"),
               Update([normalized_data |-> JsonDumps(Normalize(raw_data)),
                       state |-> "NORMALIZED"]) >>
      [] row.state = "NORMALIZED" ->
            << Call("evaluator"),
               Update([decision_data |-> JsonDumps(Evaluate(normalized_data, prof)),
                       state |-> "EVALUATED"]) >>
      [] row.state = "EVALUATED" -> RouteProgram(decision_data)
      [] row.state = "PLANNED" ->
            << Call("planner"),
               Update([plan_data |-> JsonDumps(Plan(normalized_data, decision_data, inventory)),
                       state |-> "MATERIAL_READY"]) >>
      [] row.state = "MATERIAL_READY" -> MaterialReadyProgram(plan_data, confirm)
      [] OTHER -> << >>

\* mutant: the EVALUATED branch has lost its "return True" and falls
\* through to the final "return False"
StepReturnsRouteFallsThrough(state) ==
    IF state \in {"FETCHED", "NORMALIZED", "PLANNED", "MATERIAL_READY"}
    THEN "True" ELSE "False"

\* mutant: step() reports work done on a row resting at HUMAN_REVIEW
StepReturnsTrueOnPause(state) ==
    IF state \in {"FETCHED", "NORMALIZED", "EVALUATED", "PLANNED", "MATERIAL_READY",
                  "HUMAN_REVIEW"}
    THEN "True" ELSE "False"

\* the value step() returns for a row of this state when nothing raises
StepReturns(state) ==
    IF state \in {"FETCHED", "NORMALIZED", "EVALUATED", "PLANNED", "MATERIAL_READY"}
    THEN "True" ELSE "False"

\* no collaborator fails
NoFailure == [who |-> "none", how |-> "none"]

\* Run a step program on the table.  failure names the collaborator that
\* fails in this step and how: "raise" (an exception leaves step() at the
\* call) or "false" (the call returns False).
RECURSIVE ExecProgram(_, _, _, _, _)
ExecProgram(js, job_id, prog, failure, calls) ==
    IF prog = <<>> THEN [jobs |-> js, raised |-> FALSE, calls |-> calls]
    ELSE LET op == Head(prog) IN
         IF op.kind = "update"
         THEN ExecProgram(UpdateJob(js, job_id, op.fields), job_id, Tail(prog), failure, calls)
         ELSE IF failure.who = op.who /\ failure.how = "raise"
              THEN [jobs |-> js, raised |-> TRUE, calls |-> Append(calls, op.who)]
         ELSE IF failure.who = op.who /\ failure.how = "false" /\ op.on_false = "abort"
              THEN [jobs |-> js, raised |-> FALSE, calls |-> Append(calls, op.who)]
         ELSE ExecProgram(js, job_id, Tail(prog), failure, Append(calls, op.who))

\* the failures the calls of a step program can meet
FailuresOf(prog) ==
    {NoFailure}
    \cup {[who |-> prog[i].who, how |-> "raise"] : i \in {k \in 1..Len(prog) : prog[k].kind = "call"}}
    \cup {[who |-> prog[i].who, how |-> "false"] :
             i \in {k \in 1..Len(prog) : prog[k].kind = "call"
                                         /\ prog[k].who \in SubmissionCollaborators}}

\* the answers request_confirmation can give in a step on this row
ConfirmAnswers(row) ==
    IF row.state = "MATERIAL_READY" /\ JsonLoads(row.plan_data).apply THEN BOOLEAN ELSE {TRUE}

\* JobStateMachine.step on the row _get_next_row returned (rowid n > 0):
\* dispatch on its state and report what happened
StepResult(js, n, prof, inventory, confirm, failure) ==
    LET row == js[n]
        out == ExecProgram(js, row.job_id,
                           StepProgram(row, prof, inventory, confirm), failure, <<>>)
    IN [ jobs   |-> out.jobs,
         ret    |-> IF out.raised THEN "raised" ELSE StepReturns(row.state),
         raised |-> out.raised,
         job    |-> row.job_id,
         calls  |-> out.calls ]

\* ------------------------------------------------------------------------
\* Inputs: raw postings, candidate profiles, resume inventory
\* ------------------------------------------------------------------------

T_sql    == <<"s","q","l">>
T_aws    == <<"a","w","s">>
T_git    == <<"g","i","t">>
T_rnaseq == <<"r","n","a","-","s","e","q">>
T_MA     == <<"M","A">>

RawA ==
    [ title |-> <<"D","e","v">>, company |-> <<"A","c","m","e">>, location |-> T_MA,
      employment_type |-> <<"F","u","l","l">>,
      description |-> <<"S","Q","L"," ","r","n","a","s","e","q",","," ","A","W","S"," ","g","i","t">>,
      source_url |-> "url-a" ]

\* RawA again, in another letter case and with another description
RawADup ==
    [ title |-> <<"D","E","V">>, company |-> <<"a","c","m","e">>, location |-> <<"m","a">>,
      employment_type |-> None,
      description |-> <<"s","q","l">>,
      source_url |-> "url-a2" ]

RawB ==
    [ title |-> <<"O","p","s">>, company |-> <<"A","c","m","e">>, location |-> <<"m","a">>,
      employment_type |-> <<"F","u","l","l">>,
      description |-> <<"s","q","l",","," ","r","n","a",".">>,
      source_url |-> "url-b" ]

RawC ==
    [ title |-> <<"D","e","v">>, company |-> <<"Z","e","d">>, location |-> <<"Z","Z">>,
      employment_type |-> <<"C","o","n","t","r","a","c","t">>,
      description |-> <<"s","q","l"," ","r","n","a","-","s","e","q"," ","a","w","s">>,
      source_url |-> "url-c" ]

RawPostings == {RawA, RawADup, RawB, RawC}

\* the profile of tests/test_fsm.py in short: three must-haves, one of them
\* hyphenated, and a location filter
ProfileTest ==
    [ must_have |-> <<T_sql, T_rnaseq, T_aws>>, allowed_locations |-> <<T_MA, Str_remote>> ]

\* four must-haves and no hard filter
ProfileOpen ==
    [ must_have |-> <<T_sql, T_rnaseq, T_aws, T_git>>, allowed_locations |-> <<>> ]

Profiles == {ProfileTest, ProfileOpen}

\* the resume inventory handed to the engine (module names only; the
\* resume text does not reach the table)
Inventory == [ modules |-> <<T_sql, <<"m","i","s","c">>>> ]

\* longest raw_jobs list handed to add_jobs
MaxBatch == 2

RECURSIVE SeqsUpTo(_, _)
SeqsUpTo(S, n) ==
    IF n = 0 THEN {<<>>}
    ELSE LET shorter == SeqsUpTo(S, n - 1)
         IN shorter \cup {Append(q, x) : q \in {t \in shorter : Len(t) = n - 1}, x \in S}

\* JobStateMachine.run on table js when no collaborator fails: step() until
\* it returns False.  asked gives the answer of request_confirmation per
\* record (True where it gives none).
RECURSIVE UninterruptedRun(_, _, _, _)
UninterruptedRun(js, prof, inventory, asked) ==
    LET n == GetNextRow(js) IN
    IF n = 0 THEN js
    ELSE IF StepReturns(js[n].state) = "False" THEN js
    ELSE LET confirm == IF js[n].job_id \in DOMAIN asked THEN asked[js[n].job_id] ELSE TRUE
         IN UninterruptedRun(StepResult(js, n, prof, inventory, confirm, NoFailure).jobs,
                             prof, inventory, asked)

\* ------------------------------------------------------------------------
\* One engine on its own store.  add_jobs and step are one action each;
\* run is the loop it is: it is entered, calls step until a step returns
\* False or raises, and returns.
\* ------------------------------------------------------------------------

\* engines (worker processes) that can share one store
NumWorkers == 2

Workers == 1..NumWorkers

\* a worker that is not inside step()
IdleWorker == [pc |-> "idle", job |-> None, stage |-> "none", prog |-> <<>>, txn |-> <<>>]

VARIABLES jobs, profile, running, lastOp, workers, conn, hist

vars == <<jobs, profile, running, lastOp, workers, conn, hist>>

\* what the last call did, as its caller can observe it
OpRecord(op, arg, ret, raised, job, calls, failure) ==
    [ op |-> op, arg |-> arg, ret |-> ret, raised |-> raised, job |-> job,
      calls |-> calls, failure |-> failure ]

\* nothing recorded yet.  hist is the record of what was done to the store,
\* kept for the properties and read by no action: the store as the last
\* add_jobs left it (start), whether a fresh engine took over after progress
\* since then (resumed), the last answer of request_confirmation per record
\* (asked), how often each submission collaborator was called per record
\* (invoked), how often each record made each transition (moves), and the
\* records whose submission an exception cut short, one entry per time
\* (aborted), and what became of a request to stop the running loop (stop:
\* "none" without a request, "asked" while the step in flight at the request
\* is not finished, "due" once it is, "ignored" when the loop made another
\* step after it), how many times the running loop has called step()
\* (steps), and the postings that were handed to add_jobs (offered)
NoHistory ==
    [ start   |-> <<>>,
      resumed |-> FALSE,
      asked   |-> [x \in {} |-> TRUE],
      invoked |-> [x \in {} |-> 0],
      moves   |-> [x \in {} |-> 0],
      aborted |-> <<>>,
      stop    |-> "none",
      steps   |-> 0,
      offered |-> {} ]

Init ==
    /\ jobs = <<>>
    /\ profile \in Profiles
    /\ running = FALSE
    /\ lastOp = OpRecord("init", <<>>, "none", FALSE, None, <<>>, NoFailure)
    /\ workers = [w \in Workers |-> IdleWorker]
    /\ conn = CleanConn
    /\ hist = NoHistory

\* the loop of run() is about to call step()
InLoop == running /\ (lastOp.op = "run_enter" \/ (lastOp.op = "step" /\ lastOp.ret = "True"))

\* (company, title, location) of two raw postings are equal up to letter case
SameTripleCI(r1, r2) ==
    /\ Lower(r1.company) = Lower(r2.company)
    /\ Lower(r1.title) = Lower(r2.title)
    /\ Lower(r1.location) = Lower(r2.location)

\* some posting of the batch repeats the triple of a stored record
RepeatsStored(js, raw_jobs) ==
    \E k \in 1..Len(raw_jobs), i \in 1..Len(js) :
        SameTripleCI(raw_jobs[k], JsonLoads(js[i].raw_data))

\* some posting of the batch repeats the triple of a stored record and
\* differs from the posting stored
RepeatsStoredDiffering(js, raw_jobs) ==
    \E k \in 1..Len(raw_jobs), i \in 1..Len(js) :
        /\ SameTripleCI(raw_jobs[k], JsonLoads(js[i].raw_data))
        /\ raw_jobs[k] # JsonLoads(js[i].raw_data)

\* fsm.add_jobs(raw_jobs): the SELECTs and INSERTs of the loop go through
\* the engine's connection, the commit ends them; lastOp.arg notes the size
\* of the batch, whether it repeated a stored posting, and whether it did
\* so with other content
AddJobsCall(raw_jobs) ==
    /\ ~running
    /\ \A w \in Workers : workers[w].txn = <<>>
    /\ LET view == ConnView(jobs, conn)
           end  == ConnCommit(jobs, AddJobsTo(view, raw_jobs))
       IN /\ jobs' = end.jobs
          /\ conn' = end.conn
          /\ lastOp' = OpRecord("add_jobs",
                                [n |-> Len(raw_jobs), repeat |-> RepeatsStored(view, raw_jobs),
                                 differs |-> RepeatsStoredDiffering(view, raw_jobs)],
                                "none", FALSE, None, <<>>, NoFailure)
    /\ UNCHANGED <<profile, running, workers>>

\* add_jobs on a batch of up to MaxBatch postings
AddJobs ==
    /\ \E raw_jobs \in SeqsUpTo(RawPostings, MaxBatch) \ {<<>>} : AddJobsCall(raw_jobs)
    /\ UNCHANGED hist

\* fsm.step(), called directly or by the loop of run(): the row is read
\* through the engine's connection; when _update_job ran (the rows changed)
\* its commit ends the transaction
StepCall ==
    /\ ~running \/ InLoop
    /\ LET view == ConnView(jobs, conn)
           n    == GetNextRow(view)
       IN
       IF n = 0
       THEN /\ UNCHANGED <<jobs, conn>>
            /\ lastOp' = OpRecord("step", TRUE, "False", FALSE, None, <<>>, NoFailure)
       ELSE \E confirm \in ConfirmAnswers(view[n]) :
            \E failure \in FailuresOf(StepProgram(view[n], profile, Inventory, confirm)) :
               LET res == StepResult(view, n, profile, Inventory, confirm, failure)
                   end == IF res.jobs # view THEN ConnCommit(jobs, res.jobs)
                          ELSE [jobs |-> jobs, conn |-> conn]
               IN
               /\ jobs' = end.jobs
               /\ conn' = end.conn
               /\ lastOp' = OpRecord("step", confirm, res.ret, res.raised, res.job, res.calls,
                                     IF InList(failure.who, res.calls) THEN failure ELSE NoFailure)
    /\ UNCHANGED <<profile, running, workers>>

\* a step of the engine on its own store
Step == StepCall /\ UNCHANGED hist

\* fsm.run() is entered
RunEnterCall ==
    /\ ~running
    /\ running' = TRUE
    /\ lastOp' = OpRecord("run_enter", <<>>, "none", FALSE, None, <<>>, NoFailure)
    /\ UNCHANGED <<jobs, profile, workers, conn>>

\* run() entered on the engine's own store
RunEnter == RunEnterCall /\ UNCHANGED hist

\* fsm.run() returns, or the exception of its last step leaves it
RunReturnCall ==
    /\ running /\ ~InLoop
    /\ running' = FALSE
    /\ lastOp' = OpRecord("run", <<>>, "none", lastOp.raised, None, <<>>, lastOp.failure)
    /\ UNCHANGED <<jobs, profile, workers, conn>>

\* run() left on the engine's own store
RunReturn == RunReturnCall /\ UNCHANGED hist

Next == AddJobs \/ Step \/ RunEnter \/ RunReturn

Spec == Init /\ [][Next]_vars

\* ------------------------------------------------------------------------
\* One engine whose store is fed by add_jobs and processed by run(), and
\* whose run() loop is asked to stop.  run() takes no argument
\* and its loop, "while self.step(): pass", reads no flag, event or signal:
\* a request is something the caller wants, and nothing the loop looks at.
\* ------------------------------------------------------------------------

\* run() is entered; this loop has called step() zero times and no stop has
\* been requested of it
CRunEnter ==
    /\ RunEnterCall
    /\ hist' = [hist EXCEPT !.stop = "none", !.steps = 0]

\* the caller asks the running loop to stop; a step may be in flight
CStop ==
    /\ running /\ hist.stop = "none"
    /\ hist' = [hist EXCEPT !.stop = "asked"]
    /\ UNCHANGED <<jobs, profile, running, lastOp, workers, conn>>

\* the most calls of step() a loop is charged with: a loop that goes beyond
\* five per record and one more is counted no further
StepsCap(js) == 5 * Len(js) + 2

\* a call of step() by the loop of run(); the loop condition is the return
\* value of step() alone
CStep ==
    /\ running
    /\ StepCall
    /\ hist' = [hist EXCEPT !.stop  = IF @ = "asked" THEN "due"
                                      ELSE IF @ = "due" THEN "ignored"
                                      ELSE @,
                            !.steps = IF @ < StepsCap(jobs) THEN @ + 1 ELSE @]

\* run() returns or is left by an exception; what was noted about the loop
\* ends with it
CRunReturn ==
    /\ RunReturnCall
    /\ hist' = [hist EXCEPT !.stop = "none", !.steps = 0]

NextC == AddJobs \/ CStep \/ CRunEnter \/ CRunReturn \/ CStop

SpecC == Init /\ [][NextC]_vars

\* ------------------------------------------------------------------------
\* One engine fed with postings whose fields hold the character "|", which
\* _derive_job_id also puts between the fields, and with a posting whose
\* fields are padded with blanks.
\* ------------------------------------------------------------------------

\* company "A|B", title "C"
RawPipeInCompany ==
    [ title |-> <<"C">>, company |-> <<"A","|","B">>, location |-> T_MA,
      employment_type |-> None,
      description |-> <<"s","q","l">>,
      source_url |-> "url-p1" ]

\* company "A", title "B|C"
RawPipeInTitle ==
    [ title |-> <<"B","|","C">>, company |-> <<"A">>, location |-> T_MA,
      employment_type |-> None,
      description |-> <<"a","w","s">>,
      source_url |-> "url-p2" ]

\* RawA with blanks around its fields
RawAPadded ==
    [ title |-> <<" ","D","e","v">>, company |-> <<"A","c","m","e"," ">>,
      location |-> <<" ","M","A"," ">>,
      employment_type |-> <<"F","u","l","l">>,
      description |-> <<"s","q","l">>,
      source_url |-> "url-a3" ]

RawPostingsD == {RawPipeInCompany, RawPipeInTitle, RawA, RawAPadded}

\* the postings of a batch
Postings(raw_jobs) == {raw_jobs[k] : k \in 1..Len(raw_jobs)}

\* add_jobs on a batch of up to MaxBatch of these postings
DAdd ==
    /\ \E raw_jobs \in SeqsUpTo(RawPostingsD, MaxBatch) \ {<<>>} :
          /\ AddJobsCall(raw_jobs)
          /\ hist' = [hist EXCEPT !.offered = @ \cup Postings(raw_jobs)]

NextD == DAdd \/ Step

SpecD == Init /\ [][NextD]_vars

\* ------------------------------------------------------------------------
\* One engine at a time on a store that outlives it: the engine's process
\* ends between two calls and a freshly constructed engine (same profile,
\* same inventory) takes over.
\* hist records what was done to each record.
\* ------------------------------------------------------------------------

\* most submissions a behaviour lets an exception cut short (exceptions
\* before the first submission call are not limited)
MaxAborts == 1

\* the postings the store is fed with, one per add_jobs call: RawB goes to
\* human review under both profiles, RawC is skipped under ProfileTest and
\* applied to under ProfileOpen
RawPostingsR == {RawB, RawC}

\* the submission collaborators of apply/, in the order step() calls them
SubmissionCalls == <<"fill_form", "upload_resume", "upload_cover_letter", "take_screenshot">>

\* f with the count of x raised by one
Bump(f, x) == IF x \in DOMAIN f THEN [f EXCEPT ![x] = @ + 1] ELSE f @@ (x :> 1)

\* the count of x in f
CountOf(f, x) == IF x \in DOMAIN f THEN f[x] ELSE 0

\* f with x set to v
SetTo(f, x, v) == IF x \in DOMAIN f THEN [f EXCEPT ![x] = v] ELSE f @@ (x :> v)

\* the calls of one step counted for record job_id
RECURSIVE BumpAll(_, _, _)
BumpAll(f, job_id, calls) ==
    IF calls = <<>> THEN f
    ELSE BumpAll(Bump(f, <<job_id, Head(calls)>>), job_id, Tail(calls))

\* the state column of record job_id in table js
StateOf(js, job_id) == js[CHOOSE i \in 1..Len(js) : js[i].job_id = job_id].state

\* the submission calls among the calls of a step
SubmissionCallsIn(calls) == SelectSeq(calls, LAMBDA c : InList(c, SubmissionCalls))

\* an exception ended the step after a submission collaborator was called
CutShort(op) == op.raised /\ SubmissionCallsIn(op.calls) # <<>>

\* the history after a step: op is what the step did, before and after are
\* the committed tables around it
AfterStep(h, before, after, op) ==
    IF op.job = None THEN h
    ELSE LET from == StateOf(before, op.job)
             to   == StateOf(after, op.job)
             answered == InList("request_confirmation", op.calls)
                         /\ op.failure # [who |-> "request_confirmation", how |-> "raise"]
         IN [h EXCEPT
               !.asked   = IF answered THEN SetTo(@, op.job, op.arg) ELSE @,
               !.invoked = BumpAll(@, op.job, SubmissionCallsIn(op.calls)),
               !.moves   = IF from # to THEN Bump(@, <<op.job, from, to>>) ELSE @,
               !.aborted = IF CutShort(op) THEN Append(@, op.job) ELSE @ ]

\* add_jobs of one posting; what is processed from here on starts from the
\* store this call leaves
RAdd ==
    /\ \E raw \in RawPostingsR : AddJobsCall(<<raw>>)
    /\ hist' = [hist EXCEPT !.start = jobs', !.resumed = FALSE]

\* step(), direct or in the loop of run(), with its effects recorded
RStep ==
    /\ StepCall
    /\ CutShort(lastOp') => Len(hist.aborted) < MaxAborts
    /\ hist' = AfterStep(hist, jobs, jobs', lastOp')

\* The process of the engine ends between two calls (inside run() too) and
\* JobStateMachine(profile, inventory) is constructed again on the same
\* database file: a new connection, _init_db, nothing else is carried over.
Restart ==
    /\ running' = FALSE
    /\ conn' = CleanConn
    /\ jobs' = InitDb(jobs)
    /\ lastOp' = OpRecord("restart", <<>>, "none", FALSE, None, <<>>, NoFailure)
    /\ hist' = [hist EXCEPT !.resumed = @ \/ jobs # hist.start]
    /\ UNCHANGED <<profile, workers>>

NextR == RAdd \/ RStep \/ RunEnter \/ RunReturn \/ Restart

SpecR == Init /\ [][NextR]_vars

\* ------------------------------------------------------------------------
\* The engine takes over a store whose first record was planned by an
\* engine with another planner: ApplicationPlanner(threshold) accepts any
\* threshold, and the plan a stricter planner stored can say apply = false
\* for a record the evaluator recommended.  The engine's own planner never
\* stores such a plan for a record it routed to PLANNED (apply needs a score
\* of 0.7, the planner asks for 0.5).
\* ------------------------------------------------------------------------

\* a planner that asks for a score of 0.9
StrictThreshold == PlannerThreshold + 40

\* the thresholds of the planners that wrote the stores taken over
PlannerThresholds == {PlannerThreshold, StrictThreshold}

\* the record of posting raw as the steps FETCHED to PLANNED of an engine
\* with this profile and a planner with this threshold leave it
PlannedRow(raw, prof, threshold) ==
    LET job      == Normalize(raw)
        decision == Evaluate(job, prof)
    IN [ job_id          |-> job.job_id,
         raw_data        |-> JsonDumps(raw),
         state           |-> "MATERIAL_READY",
         normalized_data |-> JsonDumps(job),
         decision_data   |-> JsonDumps(decision),
         plan_data       |-> JsonDumps(PlanWithThreshold(job, decision, Inventory, threshold)) ]

\* the postings the evaluator of this profile recommends
Recommended(prof) ==
    {raw \in RawPostings : Evaluate(Normalize(raw), prof).recommendation = "apply"}

InitP ==
    /\ profile \in Profiles
    /\ \E raw \in Recommended(profile), threshold \in PlannerThresholds :
          jobs = << PlannedRow(raw, profile, threshold) >>
    /\ running = FALSE
    /\ lastOp = OpRecord("init", <<>>, "none", FALSE, None, <<>>, NoFailure)
    /\ workers = [w \in Workers |-> IdleWorker]
    /\ conn = CleanConn
    /\ hist = NoHistory

\* add_jobs of one posting
PAdd ==
    /\ \E raw \in RawPostingsR : AddJobsCall(<<raw>>)
    /\ UNCHANGED hist

NextP == PAdd \/ Step \/ RunEnter \/ RunReturn

SpecP == InitP /\ [][NextP]_vars

\* ------------------------------------------------------------------------
\* Several engines on one store.  Each has its own connection, so a step
\* is seen by the others statement by statement: the SELECT of
\* _get_next_row, the collaborator calls, the UPDATE of _update_job, its
\* commit.  A process can die at any of these points.
\* ------------------------------------------------------------------------

\* the rest of a step program after its leading collaborator calls
RECURSIVE AfterCalls(_)
AfterCalls(prog) ==
    IF prog # <<>> /\ Head(prog).kind = "call" THEN AfterCalls(Tail(prog)) ELSE prog

\* the postings the workers' store is fed with, one per add_jobs call: one
\* job under two spellings, the first to arrive is stored
RawPostingsW == {RawA, RawADup}

\* a worker event as lastOp records it
WorkerEvent(op, w, at, job) == OpRecord(op, w, at, FALSE, job, <<>>, NoFailure)

\* step() of worker w begins: _get_next_row reads the committed table
WSelect(w) ==
    /\ ~running
    /\ workers[w].pc = "idle"
    /\ LET n == GetNextRow(jobs) IN
       IF n = 0 \/ (n > 0 /\ StepReturns(jobs[n].state) = "False")
       THEN /\ lastOp' = WorkerEvent("w_step_false", w, "idle", None)
            /\ UNCHANGED workers
       ELSE \E confirm \in ConfirmAnswers(jobs[n]) :
              /\ workers' = [workers EXCEPT ![w] =
                                [ pc    |-> "processing",
                                  job   |-> jobs[n].job_id,
                                  stage |-> jobs[n].state,
                                  prog  |-> StepProgram(jobs[n], profile, Inventory, confirm),
                                  txn   |-> <<>> ]]
              /\ UNCHANGED lastOp
    /\ UNCHANGED <<jobs, profile, running, conn, hist>>

\* the collaborator calls of worker w up to its next _update_job all
\* return, or one of them raises and ends the step; none touches the store
WCalls(w) ==
    /\ workers[w].pc = "processing"
    /\ workers[w].prog # <<>> /\ Head(workers[w].prog).kind = "call"
    /\ \/ /\ workers' = [workers EXCEPT ![w].prog = AfterCalls(@)]
          /\ UNCHANGED lastOp
       \/ /\ workers' = [workers EXCEPT ![w] = IdleWorker]
          /\ lastOp' = WorkerEvent("w_raise", w, "processing", workers[w].job)
    /\ UNCHANGED <<jobs, profile, running, conn, hist>>

\* _update_job of worker w executes its UPDATE: the write lock is taken and
\* the change is pending in the connection's transaction
WUpdate(w) ==
    /\ workers[w].pc = "processing"
    /\ workers[w].prog # <<>> /\ Head(workers[w].prog).kind = "update"
    /\ \A v \in Workers : workers[v].txn = <<>>
    /\ workers' = [workers EXCEPT ![w].pc = "in_txn",
                                  ![w].txn = <<Head(workers[w].prog).fields>>]
    /\ UNCHANGED lastOp
    /\ UNCHANGED <<jobs, profile, running, conn, hist>>

\* _update_job of worker w commits; step() returns True when that was its
\* last statement
WCommit(w) ==
    /\ workers[w].pc = "in_txn"
    /\ jobs' = UpdateJob(jobs, workers[w].job, workers[w].txn[1])
    /\ workers' = [workers EXCEPT ![w] =
                      IF Tail(workers[w].prog) = <<>> THEN IdleWorker
                      ELSE [workers[w] EXCEPT !.pc = "processing", !.prog = Tail(@),
                                              !.txn = <<>>]]
    /\ lastOp' = WorkerEvent("w_commit", w, workers[w].stage, workers[w].job)
    /\ UNCHANGED <<profile, running, conn, hist>>

\* the process of worker w dies inside step(); an open transaction is
\* rolled back, and the next engine of this worker starts idle
WCrash(w) ==
    /\ workers[w].pc # "idle"
    /\ workers' = [workers EXCEPT ![w] = IdleWorker]
    /\ lastOp' = WorkerEvent("w_crash", w, workers[w].pc, workers[w].job)
    /\ UNCHANGED <<jobs, profile, running, conn, hist>>

\* add_jobs of one posting by some engine
WAddJobs ==
    /\ \E raw \in RawPostingsW : AddJobsCall(<<raw>>)
    /\ UNCHANGED hist

NextW ==
    \/ WAddJobs
    \/ \E w \in Workers : WSelect(w) \/ WCalls(w) \/ WUpdate(w) \/ WCommit(w) \/ WCrash(w)

SpecW == Init /\ [][NextW]_vars

\* ------------------------------------------------------------------------
\* Several engines feeding one store.  add_jobs is seen statement by
\* statement: the SELECT reads the committed table outside any transaction,
\* the INSERT opens the connection's transaction and takes the write lock,
\* the commit ends it.  Steps of the engines are taken whole here.
\* ------------------------------------------------------------------------

\* add_jobs([raw]) of worker w begins: the SELECT finds the job_id or not
WAddSelect(w) ==
    /\ ~running
    /\ workers[w].pc = "idle"
    /\ \E raw \in RawPostingsW :
          LET job_id == Normalize(raw).job_id IN
          IF HasJob(jobs, job_id)
          THEN /\ lastOp' = WorkerEvent("w_add", w, "present", job_id)
               /\ UNCHANGED workers
          ELSE /\ workers' = [workers EXCEPT ![w] =
                                 [ pc |-> "adding", job |-> job_id, stage |-> "none",
                                   prog |-> <<raw>>, txn |-> <<>> ]]
               /\ UNCHANGED lastOp
    /\ UNCHANGED <<jobs, profile, running, conn, hist>>

\* the INSERT of worker w runs when no other connection holds the write
\* lock.  A failed INSERT ends add_jobs with its exception; the transaction
\* it opened stays open, and the lock with it, until the connection goes.
WAddInsert(w) ==
    /\ workers[w].pc = "adding"
    /\ \A v \in Workers : workers[v].txn = <<>>
    /\ LET res == InsertStatement(jobs, workers[w].job, workers[w].prog[1]) IN
       IF res.error
       THEN /\ workers' = [workers EXCEPT ![w].pc = "add_failed", ![w].txn = <<jobs>>]
            /\ lastOp' = WorkerEvent("w_add_raise", w, "IntegrityError", workers[w].job)
       ELSE /\ workers' = [workers EXCEPT ![w].pc = "add_txn", ![w].txn = <<res.jobs>>]
            /\ UNCHANGED lastOp
    /\ UNCHANGED <<jobs, profile, running, conn, hist>>

\* the INSERT of worker w finds the database locked by another connection
\* for longer than the busy timeout: sqlite3.OperationalError ends add_jobs
WAddBusy(w) ==
    /\ workers[w].pc = "adding"
    /\ \E v \in Workers : workers[v].txn # <<>>
    /\ workers' = [workers EXCEPT ![w] = IdleWorker]
    /\ lastOp' = WorkerEvent("w_add_raise", w, "OperationalError", workers[w].job)
    /\ UNCHANGED <<jobs, profile, running, conn, hist>>

\* the commit that ends add_jobs of worker w
WAddCommit(w) ==
    /\ workers[w].pc = "add_txn"
    /\ jobs' = workers[w].txn[1]
    /\ workers' = [workers EXCEPT ![w] = IdleWorker]
    /\ lastOp' = WorkerEvent("w_add", w, "inserted", workers[w].job)
    /\ UNCHANGED <<profile, running, conn, hist>>

\* a whole step() of some engine, its commit included, while no connection
\* holds the write lock
WStepWhole ==
    /\ \A v \in Workers : workers[v].txn = <<>>
    /\ Step

NextI ==
    \/ \E w \in Workers : WAddSelect(w) \/ WAddInsert(w) \/ WAddBusy(w) \/ WAddCommit(w)
                           \/ WCrash(w)
    \/ WStepWhole

SpecI == Init /\ [][NextI]_vars

\* ------------------------------------------------------------------------
\* Several engines on one store that the dump utility can empty:
\* dump_jobs(..., truncate=True) deletes every row through a connection of
\* its own.
\* ------------------------------------------------------------------------

\* DELETE FROM jobs
DeleteAll(js) == <<>>

\* dump_jobs with truncate: the DELETE and its commit, while no engine holds
\* the write lock
Truncate ==
    /\ jobs # <<>>
    /\ \A v \in Workers : workers[v].txn = <<>>
    /\ jobs' = DeleteAll(jobs)
    /\ lastOp' = OpRecord("truncate", <<>>, "none", FALSE, None, <<>>, NoFailure)
    /\ UNCHANGED <<profile, running, workers, conn, hist>>

\* the scheduler feeds the store before it runs the engine: add_jobs of one
\* posting while no engine is inside step()
TAddJobs ==
    /\ \A w \in Workers : workers[w].pc = "idle"
    /\ WAddJobs

NextT ==
    \/ TAddJobs
    \/ \E w \in Workers : WSelect(w) \/ WCalls(w) \/ WUpdate(w) \/ WCommit(w) \/ WCrash(w)
    \/ Truncate

SpecT == Init /\ [][NextT]_vars

\* ------------------------------------------------------------------------
\* The agents on their own: normalize, evaluate and plan called as the
\* functions they are, on inputs drawn so that every score k/n with n up to
\* MaxMustHave occurs.
\* ------------------------------------------------------------------------

\* longest must-have list of a profile and longest keyword list of a job
MaxMustHave == 10

Digits == <<"0","1","2","3","4","5","6","7","8","9">>

\* a skill keyword of its own for position i of a list
Skill(i) == <<"k","w", Digits[((i \div 10) % 10) + 1], Digits[(i % 10) + 1]>>

T_SQL == <<"S","Q","L">>

\* a profile's must-have list of n keywords: one in upper case, one with a
\* hyphen, the others plain
MustHaveA(n) ==
    [i \in 1..n |-> IF i = 1 THEN T_SQL ELSE IF i = 2 THEN T_rnaseq ELSE Skill(i)]

\* how a job spells its second keyword
SecondKeywords ==
    { T_rnaseq, <<"r","n","a","s","e","q">>, <<"R","N","A">>, <<"s","e","q">>,
      <<"r","n","a","s","e","q","x">> }

\* a job's keyword list of m keywords, the second one spelled v
KeywordsA(v, m) == [i \in 1..m |-> IF i = 1 THEN T_sql ELSE IF i = 2 THEN v ELSE Skill(i)]

\* the locations of the jobs evaluated
LocationsA == { <<"m","a">>, <<"Z","Z">>, Str_remote }

\* the allowed-location lists of the profiles; <<>> is no list
AllowedA == { <<>>, <<T_MA, Str_remote>>, << <<"R","e","m","o","t","e">> >> }

\* the employment types of the jobs evaluated
EmploymentA ==
    { None, <<"F","u","l","l">>, <<"S","u","b","-","C","O","N","T","R","A","C","T","o","r">> }

\* a Job built by hand, as the tests of the evaluator build theirs
JobA(v, m, location, employment_type) ==
    [ job_id           |-> Sha1(<<"j","o","b">>),
      title            |-> <<"D","e","v">>,
      company          |-> <<"A","c","m","e">>,
      location         |-> location,
      employment_type  |-> employment_type,
      seniority        |-> "unknown",
      keywords         |-> KeywordsA(v, m),
      responsibilities |-> KeywordsA(v, m),
      requirements     |-> KeywordsA(v, m),
      source_url       |-> "url-j" ]

JobsA ==
    { JobA(v, m, l, e) : v \in SecondKeywords, m \in 0..MaxMustHave,
                         l \in LocationsA, e \in EmploymentA }

ProfilesA ==
    { [must_have |-> MustHaveA(n), allowed_locations |-> a] :
         n \in 0..MaxMustHave, a \in AllowedA }

\* RawB without a location
RawNoLocation == [RawB EXCEPT !.location = <<>>]

\* RawC with a location of blanks
RawBlankLocation == [RawC EXCEPT !.location = <<" "," ">>]

RawPostingsA == RawPostings \cup {RawNoLocation, RawBlankLocation}

\* an inventory whose module names differ in letter case from the keywords
\* and that names a hyphenated must-have
InventoryA ==
    [ modules |-> << <<"K","W","0","3">>, <<"m","i","s","c">>, T_SQL, T_rnaseq >> ]

InventoriesA == {Inventory, InventoryA}

\* what a call of an agent did: its argument and the value it returned
AgentCall(op, arg, ret) == OpRecord(op, arg, ret, FALSE, None, <<>>, NoFailure)

\* a profile and the input of the first call: a job built by hand, or a raw
\* posting for the normalizer
InitA ==
    /\ jobs = <<>>
    /\ profile \in ProfilesA
    /\ running = FALSE
    /\ \/ \E job \in JobsA : lastOp = AgentCall("init", [job |-> <<job>>, raw |-> <<>>], "none")
       \/ \E raw \in RawPostingsA :
             lastOp = AgentCall("init", [job |-> <<>>, raw |-> <<raw>>], "none")
    /\ workers = [w \in Workers |-> IdleWorker]
    /\ conn = CleanConn
    /\ hist = NoHistory

\* JobNormalizer().normalize(raw) on the posting drawn
NormalizeCall ==
    /\ lastOp.op = "init" /\ lastOp.arg.raw # <<>>
    /\ lastOp' = AgentCall("normalize", lastOp.arg.raw[1], Normalize(lastOp.arg.raw[1]))
    /\ UNCHANGED <<jobs, profile, running, workers, conn, hist>>

\* JobEvaluator(profile).evaluate(job) on the job drawn, or on the job the
\* normalizer has just returned (raw is then the posting it came from)
EvaluateCall ==
    /\ \/ /\ lastOp.op = "init" /\ lastOp.arg.job # <<>>
          /\ lastOp' = AgentCall("evaluate", [job |-> lastOp.arg.job[1], raw |-> <<>>],
                                 Evaluate(lastOp.arg.job[1], profile))
       \/ /\ lastOp.op = "normalize"
          /\ lastOp' = AgentCall("evaluate", [job |-> lastOp.ret, raw |-> <<lastOp.arg>>],
                                 Evaluate(lastOp.ret, profile))
    /\ UNCHANGED <<jobs, profile, running, workers, conn, hist>>

\* ApplicationPlanner(threshold).plan(job, decision, inventory) on the
\* decision the evaluator has just returned for job
PlanCall ==
    /\ lastOp.op = "evaluate"
    /\ \E threshold \in PlannerThresholds, inventory \in InventoriesA :
          lastOp' = AgentCall("plan",
                              [ job |-> lastOp.arg.job, decision |-> lastOp.ret,
                                inventory |-> inventory, threshold |-> threshold ],
                              PlanWithThreshold(lastOp.arg.job, lastOp.ret, inventory, threshold))
    /\ UNCHANGED <<jobs, profile, running, workers, conn, hist>>

NextA == NormalizeCall \/ EvaluateCall \/ PlanCall

SpecA == InitA /\ [][NextA]_vars

\* ------------------------------------------------------------------------
\* The evaluator on long must-have lists: every score k/n with n up to
\* MaxScoreList, among them the ones that rounding to two decimals lifts
\* onto a threshold (16/23 = 0.6956...).
\* ------------------------------------------------------------------------

\* longest must-have list of the profiles scored
MaxScoreList == 23

\* a list of the first n skill keywords
SkillsS(n) == [i \in 1..n |-> Skill(i)]

\* a Job built by hand that names the first h skills
JobS(h, location) ==
    [ job_id           |-> Sha1(<<"j","o","b">>),
      title            |-> <<"D","e","v">>,
      company          |-> <<"A","c","m","e">>,
      location         |-> location,
      employment_type  |-> None,
      seniority        |-> "unknown",
      keywords         |-> SkillsS(h),
      responsibilities |-> SkillsS(h),
      requirements     |-> SkillsS(h),
      source_url       |-> "url-j" ]

\* a profile of n must-haves, with or without a location filter, and a job
\* that has h of them, at an allowed location or not
InitS ==
    /\ jobs = <<>>
    /\ \E n \in 0..MaxScoreList, a \in {<<>>, <<T_MA>>} :
          profile = [must_have |-> SkillsS(n), allowed_locations |-> a]
    /\ running = FALSE
    /\ \E h \in 0..MaxScoreList, location \in {<<"m","a">>, <<"Z","Z">>} :
          /\ h <= Len(profile.must_have)
          /\ lastOp = AgentCall("init", [job |-> <<JobS(h, location)>>, raw |-> <<>>], "none")
    /\ workers = [w \in Workers |-> IdleWorker]
    /\ conn = CleanConn
    /\ hist = NoHistory

\* JobEvaluator(profile).evaluate(job) on the job drawn
SEvaluate ==
    /\ lastOp.op = "init"
    /\ lastOp' = AgentCall("evaluate", [job |-> lastOp.arg.job[1], raw |-> <<>>],
                           Evaluate(lastOp.arg.job[1], profile))
    /\ UNCHANGED <<jobs, profile, running, workers, conn, hist>>

NextS == SEvaluate

SpecS == InitS /\ [][NextS]_vars

\* ------------------------------------------------------------------------
\* Properties of the single engine
\* ------------------------------------------------------------------------

\* the stages from which step() advances a record
Advanceable == {"FETCHED", "NORMALIZED", "EVALUATED", "PLANNED", "MATERIAL_READY"}

\* the stages at which a record rests
Resting == {"SUBMITTED", "SKIPPED", "HUMAN_REVIEW"}

\* no job_id is stored twice
UniqueJobIds(js) ==
    \A i, j \in 1..Len(js) : js[i].job_id = js[j].job_id => i = j

\* no two stored records carry the same triple up to letter case
NoTwinRecords(js) ==
    \A i, j \in 1..Len(js) :
        SameTripleCI(JsonLoads(js[i].raw_data), JsonLoads(js[j].raw_data)) => i = j

\* js1 is the beginning of js2: every record of js1 is in js2, unchanged
IsPrefix(js1, js2) ==
    Len(js1) <= Len(js2) /\ \A i \in 1..Len(js1) : js2[i] = js1[i]

\* C1: insertion is idempotent.  After every call the store holds at most
\* one record per job_id and at most one per (company, title, location)
\* triple up to letter case; add_jobs leaves every stored record as it was
\* (stage and payloads), and a batch that adds nothing new adds no record.
C1_IdempotentInsertion ==
    [][ /\ UniqueJobIds(jobs')
        /\ NoTwinRecords(jobs')
        /\ lastOp'.op = "add_jobs" => IsPrefix(jobs, jobs')
      ]_vars

\* C1 witness: a batch repeating a stored posting was added after the
\* stored record had advanced, and the store still holds one record
C1_Witness ==
    /\ lastOp.op = "add_jobs" /\ lastOp.arg.repeat
    /\ Len(jobs) = 1 /\ jobs[1].state = "EVALUATED"

\* the position of a record in the ordering FETCHED < NORMALIZED <
\* EVALUATED < {SKIPPED, HUMAN_REVIEW, PLANNED} < MATERIAL_READY <
\* {SUBMITTED, HUMAN_REVIEW}; a record in HUMAN_REVIEW stands in the last
\* group when it carries a plan (it came from MATERIAL_READY)
StageRank(row) ==
    CASE row.state = "FETCHED" -> 0
      [] row.state = "NORMALIZED" -> 1
      [] row.state = "EVALUATED" -> 2
      [] row.state \in {"SKIPPED", "PLANNED"} -> 3
      [] row.state = "HUMAN_REVIEW" -> IF row.plan_data # Null THEN 5 ELSE 3
      [] row.state = "MATERIAL_READY" -> 4
      [] row.state = "SUBMITTED" -> 5

\* C2: monotonic stage progression.  Every change of a record's stage goes
\* to a stage that is not lower in the ordering (MATERIAL_READY ->
\* HUMAN_REVIEW goes to the last group), and records are never removed.
C2_MonotonicStages ==
    [][ /\ Len(jobs') >= Len(jobs)
        /\ \A i \in 1..Len(jobs) :
              jobs'[i].state # jobs[i].state => StageRank(jobs[i]) <= StageRank(jobs'[i])
      ]_vars

\* C2 witness: one record was submitted and another was sent to
\* HUMAN_REVIEW from MATERIAL_READY on refusal
C2_Witness ==
    /\ \E i \in 1..Len(jobs) : jobs[i].state = "SUBMITTED"
    /\ \E i \in 1..Len(jobs) : jobs[i].state = "HUMAN_REVIEW" /\ jobs[i].plan_data # Null

\* the transitions of the step contract
LifecycleEdges ==
    { <<"FETCHED", "NORMALIZED">>, <<"NORMALIZED", "EVALUATED">>,
      <<"EVALUATED", "SKIPPED">>, <<"EVALUATED", "HUMAN_REVIEW">>,
      <<"EVALUATED", "PLANNED">>, <<"PLANNED", "MATERIAL_READY">>,
      <<"MATERIAL_READY", "SKIPPED">>, <<"MATERIAL_READY", "SUBMITTED">>,
      <<"MATERIAL_READY", "HUMAN_REVIEW">> }

\* between js1 and js2 exactly record i moved, along one edge
OneEdge(js1, js2, i) ==
    /\ Len(js2) = Len(js1)
    /\ <<js1[i].state, js2[i].state>> \in LifecycleEdges
    /\ \A j \in 1..Len(js1) : j # i => js2[j] = js1[j]

\* C3: a step that returns true has committed exactly one transition: one
\* record moved along one edge of the lifecycle, every other record is
\* unchanged.
C3_OneTransitionPerStep ==
    [][ (lastOp'.op = "step" /\ lastOp'.ret = "True")
           => \E i \in 1..Len(jobs) : OneEdge(jobs, jobs', i)
      ]_vars

\* C3 witness: a step returned true on a store of three records
C3_Witness ==
    lastOp.op = "step" /\ lastOp.ret = "True" /\ Len(jobs) = 3

\* C4: step() returns false only when no record is pending.
C4_FalseOnlyWhenNothingPending ==
    (lastOp.op = "step" /\ lastOp.ret = "False")
       => \A i \in 1..Len(jobs) : jobs[i].state \notin Advanceable

\* C5: when run() returns and nothing raised, every record rests at
\* SUBMITTED, SKIPPED or HUMAN_REVIEW.
C5_RunDrains ==
    (lastOp.op = "run" /\ ~lastOp.raised)
       => \A i \in 1..Len(jobs) : jobs[i].state \in Resting

\* C6: a step in which a collaborator raises commits nothing: the table is
\* exactly what it was before the step, and the record the step was
\* working on is the one the next step takes up again.
C6_RaiseCommitsNothing ==
    [][ (lastOp'.op = "step" /\ lastOp'.raised)
           => /\ jobs' = jobs
              /\ GetNextRow(jobs') > 0
              /\ jobs'[GetNextRow(jobs')].job_id = lastOp'.job
      ]_vars

\* C6 witness: the last submission collaborator raised after confirmation
\* and the record is still at MATERIAL_READY
C6_Witness ==
    /\ lastOp.op = "step" /\ lastOp.raised /\ lastOp.failure.who = "take_screenshot"
    /\ \E i \in 1..Len(jobs) : jobs[i].job_id = lastOp.job /\ jobs[i].state = "MATERIAL_READY"

\* C7: a step in which a submission collaborator returned false does not
\* commit: the record is still at MATERIAL_READY.
C7_FalseReturnAborts ==
    (lastOp.op = "step" /\ lastOp.failure.how = "false")
       => \A i \in 1..Len(jobs) :
             jobs[i].job_id = lastOp.job => jobs[i].state = "MATERIAL_READY"

\* C13: in every state a record carries its normalized payload exactly when
\* it is at NORMALIZED or beyond (any stage but FETCHED), and its decision
\* payload exactly when it is at EVALUATED or beyond (any stage but FETCHED
\* and NORMALIZED).
C13_PayloadsMatchStage ==
    \A i \in 1..Len(jobs) :
        /\ jobs[i].normalized_data # Null <=> jobs[i].state # "FETCHED"
        /\ jobs[i].decision_data # Null <=> jobs[i].state \notin {"FETCHED", "NORMALIZED"}

\* C13 witness: the store holds a record that was skipped, a record at
\* NORMALIZED and a record at FETCHED
C13_Witness ==
    /\ \E i \in 1..Len(jobs) : jobs[i].state = "SKIPPED"
    /\ \E i \in 1..Len(jobs) : jobs[i].state = "NORMALIZED"
    /\ \E i \in 1..Len(jobs) : jobs[i].state = "FETCHED"

\* C16: a step that returns false has changed nothing: every record is as
\* it was, nothing is pending in the connection, and no collaborator was
\* called.
C16_FalseStepMutatesNothing ==
    [][ (lastOp'.op = "step" /\ lastOp'.ret = "False")
           => /\ jobs' = jobs
              /\ conn' = conn
              /\ lastOp'.calls = <<>>
      ]_vars

\* C16 witness: step() returned false on a store of two records, both
\* finished
C16_Witness ==
    /\ lastOp.op = "step" /\ lastOp.ret = "False"
    /\ Len(jobs) = 2
    /\ \A i \in 1..Len(jobs) : jobs[i].state \in {"SUBMITTED", "SKIPPED"}

\* where the recommendation of a decision sends a record
RouteOf(recommendation) ==
    CASE recommendation = "skip" -> "SKIPPED"
      [] recommendation = "human_review" -> "HUMAN_REVIEW"
      [] recommendation = "apply" -> "PLANNED"

\* C17: a record at EVALUATED changes only by going where the
\* recommendation of its stored decision sends it, with every payload as it
\* was; and a record at PLANNED or beyond it (it carries a plan, or is at
\* MATERIAL_READY or SUBMITTED) has the recommendation apply.
C17_RoutedByRecommendation ==
    [][ /\ \A i \in 1..Len(jobs) :
              (jobs[i].state = "EVALUATED" /\ jobs'[i] # jobs[i])
                 => jobs'[i] = [jobs[i] EXCEPT
                       !.state = RouteOf(JsonLoads(jobs[i].decision_data).recommendation)]
        /\ \A i \in 1..Len(jobs') :
              (\/ jobs'[i].state \in {"PLANNED", "MATERIAL_READY", "SUBMITTED"}
               \/ jobs'[i].plan_data # Null)
                 => JsonLoads(jobs'[i].decision_data).recommendation = "apply"
      ]_vars

\* C17 witness: a step has just routed a record to PLANNED, after another
\* record was routed to SKIPPED
C17_Witness ==
    /\ lastOp.op = "step" /\ lastOp.ret = "True"
    /\ \E i \in 1..Len(jobs) : jobs[i].job_id = lastOp.job /\ jobs[i].state = "PLANNED"
    /\ \E i \in 1..Len(jobs) : jobs[i].state = "SKIPPED" /\ jobs[i].plan_data = Null

\* ------------------------------------------------------------------------
\* Properties of several engines on one store
\* ------------------------------------------------------------------------

\* C8: no two workers are inside step() on the same record at the same
\* time.
C8_NoConcurrentProcessing ==
    \A w1, w2 \in Workers :
        (w1 # w2 /\ workers[w1].pc # "idle" /\ workers[w2].pc # "idle")
           => workers[w1].job # workers[w2].job

\* C9: a commit takes effect only if the record is still at the stage its
\* worker read; the commit of a worker that lost the race changes nothing.
C9_StaleCommitRejected ==
    [][ \A i \in 1..Len(jobs) :
           jobs'[i] # jobs[i]
              => \E w \in Workers : /\ workers[w].pc = "in_txn"
                                    /\ workers[w].job = jobs[i].job_id
                                    /\ workers[w].stage = jobs[i].state
      ]_vars

\* C10: a stage and its payload become visible together, whatever happens
\* between the statements of a step (other workers, a crash): a payload
\* column changes only in the transition that puts the record at the stage
\* producing it, and a record enters such a stage only with the payload set.
C10_AtomicStageAndPayload ==
    [][ \A i \in 1..Len(jobs) :
           /\ jobs'[i].normalized_data # jobs[i].normalized_data
                 => jobs'[i].state = "NORMALIZED"
           /\ jobs'[i].decision_data # jobs[i].decision_data
                 => jobs'[i].state = "EVALUATED"
           /\ jobs'[i].plan_data # jobs[i].plan_data
                 => jobs'[i].state = "MATERIAL_READY"
           /\ jobs'[i].state # jobs[i].state =>
                 /\ jobs'[i].state = "NORMALIZED" => jobs'[i].normalized_data # Null
                 /\ jobs'[i].state = "EVALUATED" => jobs'[i].decision_data # Null
                 /\ jobs'[i].state = "MATERIAL_READY" => jobs'[i].plan_data # Null
      ]_vars

\* C10 witness: a worker died between the UPDATE of its planning step and
\* the commit; the record is at PLANNED and carries no plan
C10_Witness ==
    /\ lastOp.op = "w_crash" /\ lastOp.ret = "in_txn"
    /\ \E i \in 1..Len(jobs) :
          /\ jobs[i].job_id = lastOp.job
          /\ jobs[i].state = "PLANNED" /\ jobs[i].plan_data = Null

\* ------------------------------------------------------------------------
\* Properties of an engine that is stopped and constructed again
\* ------------------------------------------------------------------------

\* the record of table js with this job_id
RowOf(js, job_id) == js[CHOOSE i \in 1..Len(js) : js[i].job_id = job_id]

\* how often the submission of record job_id was cut short
AbortsOf(h, job_id) == Len(SelectSeq(h.aborted, LAMBDA j : j = job_id))

\* C11: resumability.  Between two calls nothing is held in the engine's
\* connection only (a fresh engine reads what the old one saw), and when a
\* run() returns, whatever steps, interruptions and fresh engines came
\* since the store was last fed, every record has the stage and payloads
\* one uninterrupted run() from that store gives it.
C11_Resumable ==
    /\ ~conn.dirty
    /\ (lastOp.op = "run" /\ ~lastOp.raised)
          => jobs = UninterruptedRun(hist.start, profile, Inventory, hist.asked)

\* C11 witness: a run() returned on a store of two records, one submitted;
\* the engine had been replaced after some progress on that store
C11_Witness ==
    /\ lastOp.op = "run" /\ ~lastOp.raised /\ hist.resumed
    /\ Len(jobs) = 2 /\ jobs # hist.start
    /\ \E i \in 1..Len(jobs) : jobs[i].state = "SUBMITTED"

\* C12 as stated: no record makes a transition twice and no submission
\* collaborator is called twice for a record.
C12_NeverRepeated ==
    /\ \A m \in DOMAIN hist.moves : hist.moves[m] <= 1
    /\ \A c \in DOMAIN hist.invoked : hist.invoked[c] <= 1

\* C12 amended: no record makes a transition twice, and a submission
\* collaborator is called again for a record only when an exception cut an
\* earlier submission of that record short: at most once more per such time.
C12_RepeatedOnlyAfterException ==
    /\ \A m \in DOMAIN hist.moves : hist.moves[m] <= 1
    /\ \A c \in DOMAIN hist.invoked : hist.invoked[c] <= 1 + AbortsOf(hist, c[1])

\* C12 witness: a record was submitted by an engine constructed after the
\* record had made progress, no exception on the way, every submission
\* collaborator called once
C12_Witness ==
    /\ hist.resumed /\ hist.aborted = <<>>
    /\ \E i \in 1..Len(jobs) :
          /\ jobs[i].state = "SUBMITTED"
          /\ \A k \in 1..Len(SubmissionCalls) :
                CountOf(hist.invoked, <<jobs[i].job_id, SubmissionCalls[k]>>) = 1

\* record job_id has made the transition from -> to
HasMoved(h, job_id, from, to) == CountOf(h.moves, <<job_id, from, to>>) > 0

\* C14 as stated: a record at PLANNED, MATERIAL_READY or SUBMITTED carries a
\* plan, and a record that never reached PLANNED carries none.
C14_PlanPresentFromPlanned ==
    \A i \in 1..Len(jobs) :
        /\ jobs[i].state \in {"PLANNED", "MATERIAL_READY", "SUBMITTED"}
              => jobs[i].plan_data # Null
        /\ ~HasMoved(hist, jobs[i].job_id, "EVALUATED", "PLANNED")
              => jobs[i].plan_data = Null

\* C14 amended: a record carries a plan exactly when it has reached
\* MATERIAL_READY; so a record at MATERIAL_READY or SUBMITTED has one and a
\* record at PLANNED has none yet.
C14_PlanPresentFromMaterialReady ==
    \A i \in 1..Len(jobs) :
        /\ jobs[i].plan_data # Null
              <=> HasMoved(hist, jobs[i].job_id, "PLANNED", "MATERIAL_READY")
        /\ jobs[i].state \in {"MATERIAL_READY", "SUBMITTED"} => jobs[i].plan_data # Null
        /\ jobs[i].state = "PLANNED" => jobs[i].plan_data = Null

\* C14 witness: one record was submitted and carries its plan, another went
\* to HUMAN_REVIEW from EVALUATED and carries none
C14_Witness ==
    /\ \E i \in 1..Len(jobs) : jobs[i].state = "SUBMITTED" /\ jobs[i].plan_data # Null
    /\ \E i \in 1..Len(jobs) : jobs[i].state = "HUMAN_REVIEW" /\ jobs[i].plan_data = Null

\* every answer request_confirmation gave was yes
AlwaysConfirmed(h) == \A j \in DOMAIN h.asked : h.asked[j]

\* C15: end to end.  When run() returns on a store of one record, no
\* submission was cut short and every confirmation was granted, the record
\* is where the evaluator's verdict on its posting sends it: SUBMITTED for
\* apply, SKIPPED for skip (every posting failing the hard filter is one),
\* HUMAN_REVIEW for human_review.
C15_EndToEnd ==
    (/\ lastOp.op = "run" /\ ~lastOp.raised
     /\ Len(jobs) = 1 /\ hist.aborted = <<>> /\ AlwaysConfirmed(hist))
       => LET decision == Evaluate(Normalize(JsonLoads(jobs[1].raw_data)), profile)
          IN /\ decision.recommendation = "apply" => jobs[1].state = "SUBMITTED"
             /\ decision.recommendation = "skip" => jobs[1].state = "SKIPPED"
             /\ decision.recommendation = "human_review" => jobs[1].state = "HUMAN_REVIEW"
             /\ ~decision.pass_hard_filter => jobs[1].state = "SKIPPED"

\* C15 witness: run() returned on a store of one record that was confirmed
\* and submitted
C15_Witness ==
    /\ lastOp.op = "run" /\ ~lastOp.raised
    /\ Len(jobs) = 1 /\ hist.aborted = <<>>
    /\ jobs[1].job_id \in DOMAIN hist.asked /\ AlwaysConfirmed(hist)
    /\ jobs[1].state = "SUBMITTED"

\* request_confirmation was called in this step and answered yes
Confirmed(op) ==
    /\ InList("request_confirmation", op.calls)
    /\ op.failure # [who |-> "request_confirmation", how |-> "raise"]
    /\ op.arg = TRUE

\* C18: the submission calls of a step are a beginning of form fill,
\* resume upload, cover-letter upload, screenshot, in that order; a step in
\* which the confirmation was granted and nothing raised makes all four and
\* commits SUBMITTED; a record becomes SUBMITTED only in a step that made
\* all four calls and saw them all return; and every record at SUBMITTED has
\* had each of the four called for it.
C18_SubmissionInOrder ==
    [][ /\ lastOp'.op = "step"
              => /\ IsPrefix(SubmissionCallsIn(lastOp'.calls), SubmissionCalls)
                 /\ (Confirmed(lastOp') /\ ~lastOp'.raised)
                       => /\ SubmissionCallsIn(lastOp'.calls) = SubmissionCalls
                          /\ StateOf(jobs, lastOp'.job) = "MATERIAL_READY"
                          /\ StateOf(jobs', lastOp'.job) = "SUBMITTED"
        /\ \A i \in 1..Len(jobs) :
              (jobs'[i].state = "SUBMITTED" /\ jobs[i].state # "SUBMITTED")
                 => /\ lastOp'.op = "step" /\ lastOp'.job = jobs[i].job_id
                    /\ ~lastOp'.raised
                    /\ SubmissionCallsIn(lastOp'.calls) = SubmissionCalls
        /\ \A i \in 1..Len(jobs') :
              jobs'[i].state = "SUBMITTED"
                 => \A k \in 1..Len(SubmissionCalls) :
                       CountOf(hist'.invoked, <<jobs'[i].job_id, SubmissionCalls[k]>>) >= 1
      ]_vars

\* C18 witness: a step has just submitted a record whose earlier submission
\* an exception had cut short
C18_Witness ==
    /\ lastOp.op = "step" /\ Confirmed(lastOp) /\ ~lastOp.raised
    /\ AbortsOf(hist, lastOp.job) = 1
    /\ RowOf(jobs, lastOp.job).state = "SUBMITTED"

\* request_confirmation was called in this step and answered no
Refused(op) ==
    /\ InList("request_confirmation", op.calls)
    /\ op.failure # [who |-> "request_confirmation", how |-> "raise"]
    /\ op.arg = FALSE

\* C19: no submission without confirmation.  In every step, a submission
\* collaborator is called only after request_confirmation was called in the
\* same step and answered yes; in a step where it answered no, no
\* submission collaborator is called and the record goes from
\* MATERIAL_READY to HUMAN_REVIEW.
C19_NoSubmissionWithoutConfirmation ==
    [][ lastOp'.op = "step"
           => /\ \A k \in 1..Len(lastOp'.calls) :
                    InList(lastOp'.calls[k], SubmissionCalls)
                       => /\ Confirmed(lastOp')
                          /\ \E j \in 1..(k - 1) : lastOp'.calls[j] = "request_confirmation"
              /\ Refused(lastOp')
                    => /\ SubmissionCallsIn(lastOp'.calls) = <<>>
                       /\ ~lastOp'.raised /\ lastOp'.ret = "True"
                       /\ StateOf(jobs, lastOp'.job) = "MATERIAL_READY"
                       /\ StateOf(jobs', lastOp'.job) = "HUMAN_REVIEW"
      ]_vars

\* C19 witness: the confirmation was refused in the last step and the
\* record is at HUMAN_REVIEW, its plan stored
C19_Witness ==
    /\ lastOp.op = "step" /\ Refused(lastOp)
    /\ RowOf(jobs, lastOp.job).state = "HUMAN_REVIEW"
    /\ RowOf(jobs, lastOp.job).plan_data # Null

\* ------------------------------------------------------------------------
\* Properties of the engine on a store planned by another planner
\* ------------------------------------------------------------------------

\* C20: a step on a MATERIAL_READY record whose stored plan says
\* apply = false calls no collaborator (no content generator, no
\* confirmation request, no submission collaborator), moves the record to
\* SKIPPED with every payload as it was, and returns true.
C20_NoApplySkipsQuietly ==
    [][ \A i \in 1..Len(jobs) :
           (/\ lastOp'.op = "step" /\ lastOp'.job = jobs[i].job_id
            /\ jobs[i].state = "MATERIAL_READY"
            /\ ~JsonLoads(jobs[i].plan_data).apply)
              => /\ lastOp'.calls = <<>>
                 /\ ~lastOp'.raised /\ lastOp'.ret = "True"
                 /\ jobs'[i] = [jobs[i] EXCEPT !.state = "SKIPPED"]
      ]_vars

\* C20 witness: the last step moved a recommended record to SKIPPED on a
\* stored plan with apply = false
C20_Witness ==
    /\ lastOp.op = "step" /\ lastOp.ret = "True" /\ lastOp.calls = <<>>
    /\ RowOf(jobs, lastOp.job).state = "SKIPPED"
    /\ RowOf(jobs, lastOp.job).plan_data # Null
    /\ ~JsonLoads(RowOf(jobs, lastOp.job).plan_data).apply
    /\ JsonLoads(RowOf(jobs, lastOp.job).decision_data).recommendation = "apply"

\* ------------------------------------------------------------------------
\* Properties of the agents
\* ------------------------------------------------------------------------

\* the pieces of kw between its hyphens that are not empty
HyphenTokens(kw) ==
    { SubSeq(kw, p[1], p[2]) :
         p \in { q \in (1..Len(kw)) \X (1..Len(kw)) :
                    /\ q[1] <= q[2]
                    /\ \A k \in q[1]..q[2] : kw[k] # "-"
                    /\ (q[1] = 1 \/ kw[q[1] - 1] = "-")
                    /\ (q[2] = Len(kw) \/ kw[q[2] + 1] = "-") } }

\* the variants of a must-have keyword as the design states them
VariantsOf(kw) ==
    {kw} \cup (IF \E i \in 1..Len(kw) : kw[i] = "-"
               THEN {SelectSeq(kw, LAMBDA c : c # "-")} \cup HyphenTokens(kw)
               ELSE {})

\* some variant of must-have kw equals a keyword of the job up to letter case
MatchedCI(kw, job) ==
    \E v \in VariantsOf(Lower(kw)) :
        \E k \in 1..Len(job.keywords) : Lower(job.keywords[k]) = v

\* the must-haves of the profile (by position) the job matches
MatchedPositions(job, prof) ==
    {i \in 1..Len(prof.must_have) : MatchedCI(prof.must_have[i], job)}

\* numerator and denominator of the score of job under prof
ScoreNum(job, prof) ==
    IF prof.must_have = <<>> THEN 1 ELSE Cardinality(MatchedPositions(job, prof))

ScoreDen(prof) == IF prof.must_have = <<>> THEN 1 ELSE Len(prof.must_have)

\* C21: evaluate() recommends skip if the hard filter fails or the score is
\* 0.0; else apply if the score is at least 0.7; else human_review if it is
\* at least 0.4; else skip.  A failed hard filter gives skip whatever the
\* score.
C21_RecommendationLadder ==
    lastOp.op = "evaluate" =>
        LET d == lastOp.ret
            h == ScoreNum(lastOp.arg.job, profile)
            t == ScoreDen(profile)
        IN /\ (~d.pass_hard_filter \/ h = 0) => d.recommendation = "skip"
           /\ (d.pass_hard_filter /\ h > 0) =>
                 /\ 10 * h >= 7 * t => d.recommendation = "apply"
                 /\ (10 * h >= 4 * t /\ 10 * h < 7 * t) => d.recommendation = "human_review"
                 /\ 10 * h < 4 * t => d.recommendation = "skip"

\* C21 witness: a job that matches seven or more of ten must-haves is
\* skipped because its location is not allowed
C21_Witness ==
    /\ lastOp.op = "evaluate"
    /\ ~lastOp.ret.pass_hard_filter
    /\ Len(profile.must_have) = 10
    /\ Len(lastOp.ret.strengths) >= 7
    /\ lastOp.ret.recommendation = "skip"

\* C22: the score of evaluate() is matched / total must-haves (1.0 for an
\* empty must-have list; the decision carries it rounded to two decimals),
\* and strengths and gaps partition the must-have list: each must-have, as
\* evaluate lower-cases it, is in strengths and not in gaps when it matched,
\* in gaps and not in strengths when it did not, and the two lists together
\* are as long as the must-have list.
C22_ScoreAndPartition ==
    lastOp.op = "evaluate" =>
        LET d    == lastOp.ret
            job  == lastOp.arg.job
            must == profile.must_have
            h    == Cardinality(MatchedPositions(job, profile))
            off  == 100 * h - d.match_score * Len(must)
        IN /\ must = <<>> => d.match_score = 100
           /\ must # <<>> => 2 * (IF off < 0 THEN 0 - off ELSE off) <= Len(must)
           /\ Len(d.strengths) + Len(d.gaps) = Len(must)
           /\ Len(d.strengths) = h
           /\ \A i \in 1..Len(must) :
                 IF MatchedCI(must[i], job)
                 THEN InList(Lower(must[i]), d.strengths) /\ ~InList(Lower(must[i]), d.gaps)
                 ELSE InList(Lower(must[i]), d.gaps) /\ ~InList(Lower(must[i]), d.strengths)

\* C22 witness: two of three must-haves matched, score 0.67, one gap
C22_Witness ==
    /\ lastOp.op = "evaluate"
    /\ Len(profile.must_have) = 3
    /\ Len(lastOp.ret.strengths) = 2 /\ Len(lastOp.ret.gaps) = 1
    /\ lastOp.ret.match_score = 67

\* the job keywords that match the must-have "rna-seq"
RnaSeqForms ==
    { T_rnaseq, <<"r","n","a","s","e","q">>, <<"r","n","a">>, <<"s","e","q">> }

\* C23: a must-have counts as matched (is reported in strengths) exactly
\* when one of its variants equals some job keyword up to letter case, as a
\* whole keyword; the variants are the keyword and, for a hyphenated one,
\* the keyword without hyphens and each non-empty piece between hyphens.
\* "rna-seq" matches "rna-seq", "rnaseq", "rna" and "seq" and nothing else.
C23_VariantMatching ==
    lastOp.op = "evaluate" =>
        LET d    == lastOp.ret
            job  == lastOp.arg.job
            must == profile.must_have
        IN \A i \in 1..Len(must) :
              /\ InList(Lower(must[i]), d.strengths) <=> MatchedCI(must[i], job)
              /\ must[i] = T_rnaseq =>
                    (InList(T_rnaseq, d.strengths)
                       <=> \E k \in 1..Len(job.keywords) : Lower(job.keywords[k]) \in RnaSeqForms)

\* C23 witness: "rna-seq" is matched by the job keyword "RNA" while the job
\* has no keyword "rna-seq"
C23_Witness ==
    /\ lastOp.op = "evaluate"
    /\ InList(T_rnaseq, lastOp.ret.strengths)
    /\ InList(<<"R","N","A">>, lastOp.arg.job.keywords)
    /\ ~InList(T_rnaseq, lastOp.arg.job.keywords)

\* location equals an entry of the allowed list up to letter case
AllowedCI(location, allowed) ==
    \E i \in 1..Len(allowed) : Lower(allowed[i]) = Lower(location)

\* C24: the hard filter passes exactly when the profile gives no allowed
\* locations or the job's location equals one of them up to letter case.  A
\* posting whose location is empty (or blank) is normalized to "remote", and
\* passes exactly when "remote" in any letter case is allowed or no list is
\* given.
C24_HardFilter ==
    lastOp.op = "evaluate" =>
        LET d       == lastOp.ret
            job     == lastOp.arg.job
            allowed == profile.allowed_locations
        IN /\ d.pass_hard_filter <=> (allowed = <<>> \/ AllowedCI(job.location, allowed))
           /\ (lastOp.arg.raw # <<>>
                 /\ \A k \in 1..Len(lastOp.arg.raw[1].location) :
                        lastOp.arg.raw[1].location[k] = " ")
                 => /\ job.location = Str_remote
                    /\ d.pass_hard_filter <=> (allowed = <<>> \/ AllowedCI(Str_remote, allowed))

\* C24 witness: a posting without a location passes the filter of a profile
\* that allows "Remote"
C24_Witness ==
    /\ lastOp.op = "evaluate"
    /\ lastOp.arg.raw # <<>> /\ lastOp.arg.raw[1].location = <<>>
    /\ profile.allowed_locations = << <<"R","e","m","o","t","e">> >>
    /\ lastOp.ret.pass_hard_filter

\* the employment-type text of the job says "contract" in some letter case
SaysContract(job) ==
    /\ job.employment_type # None
    /\ \E i \in 1..Len(job.employment_type) :
          /\ i + 7 <= Len(job.employment_type)
          /\ Lower(SubSeq(job.employment_type, i, i + 7)) = Str_contract

\* C25: the risk flags hold "contract" exactly when the employment-type
\* text contains "contract" in any letter case, and "low_match" exactly when
\* the score is below 0.5.  One must-have of three matched on a contract job
\* gives score 0.33, both flags and the recommendation skip.
C25_RiskFlags ==
    lastOp.op = "evaluate" =>
        LET d   == lastOp.ret
            job == lastOp.arg.job
            h   == ScoreNum(job, profile)
            t   == ScoreDen(profile)
        IN /\ InList("contract", d.risk_flags) <=> SaysContract(job)
           /\ InList("low_match", d.risk_flags) <=> 2 * h < t
           /\ \A i \in 1..Len(d.risk_flags) : d.risk_flags[i] \in {"contract", "low_match"}
           /\ (Len(profile.must_have) = 3 /\ h = 1 /\ SaysContract(job))
                 => /\ d.match_score = 33
                    /\ InList("contract", d.risk_flags) /\ InList("low_match", d.risk_flags)
                    /\ d.recommendation = "skip"

\* C25 witness: one of three must-haves matched on a job whose employment
\* type is "Sub-CONTRACTor", in an allowed location
C25_Witness ==
    /\ lastOp.op = "evaluate"
    /\ Len(profile.must_have) = 3 /\ Len(lastOp.ret.strengths) = 1
    /\ lastOp.ret.pass_hard_filter
    /\ lastOp.arg.job.employment_type # None
    /\ Contains(Str_contract, Lower(lastOp.arg.job.employment_type))
    /\ lastOp.ret.risk_flags = <<"contract", "low_match">>

\* module name m equals a keyword of the job or a strength of the decision
\* up to letter case
ModuleWanted(m, job, decision) ==
    \/ \E k \in 1..Len(job.keywords) : Lower(job.keywords[k]) = Lower(m)
    \/ \E k \in 1..Len(decision.strengths) : Lower(decision.strengths[k]) = Lower(m)

\* C26: plan() returns apply = false and an empty plan if the hard filter
\* failed, the recommendation is not apply, or the score is below the
\* planner's threshold; otherwise apply = true, cover letter required,
\* automation level manual, and highlight_modules are the modules of the
\* inventory, in its order, that equal a job keyword or a strength up to
\* letter case.
C26_PlanContract ==
    lastOp.op = "plan" =>
        LET a  == lastOp.arg
            pl == lastOp.ret
            refuse == \/ ~a.decision.pass_hard_filter
                      \/ a.decision.recommendation # "apply"
                      \/ a.decision.match_score < a.threshold
        IN IF refuse
           THEN /\ pl.apply = FALSE
                /\ pl.resume_strategy = <<>> /\ pl.cover_letter = <<>>
           ELSE /\ pl.apply = TRUE
                /\ pl.cover_letter.required = TRUE
                /\ pl.automation_level = "manual"
                /\ pl.resume_strategy.highlight_modules
                      = SelectSeq(a.inventory.modules,
                                  LAMBDA m : ModuleWanted(m, a.job, a.decision))

\* C26 witness: the default planner plans an application and highlights the
\* modules "KW03" (a job keyword), "SQL" and "rna-seq" (strengths), not
\* "misc"
C26_Witness ==
    /\ lastOp.op = "plan"
    /\ lastOp.arg.threshold = PlannerThreshold
    /\ lastOp.ret.apply
    /\ lastOp.ret.resume_strategy.highlight_modules = << <<"K","W","0","3">>, T_SQL, T_rnaseq >>
    /\ ~InList(T_rnaseq, lastOp.arg.job.keywords)

\* ------------------------------------------------------------------------
\* Properties of the store
\* ------------------------------------------------------------------------

C28_AbsentCommitFails ==
    lastOp.op = "w_commit" => HasJob(jobs, lastOp.job)

\* every record inserted before row i is at SUBMITTED or SKIPPED
EarlierAllFinished(js, i) ==
    \A j \in 1..(i - 1) : js[j].state \in {"SUBMITTED", "SKIPPED"}

\* C29: selection is deterministic and follows insertion order.  A step()
\* acts on the earliest-inserted record that is not at SUBMITTED or
\* SKIPPED, so with one engine a record's stage changes only while every
\* record inserted before it is at SUBMITTED or SKIPPED.
C29_InsertionOrder ==
    [][ /\ \A i \in 1..Len(jobs) :
              jobs'[i].state # jobs[i].state => EarlierAllFinished(jobs, i)
        /\ (lastOp'.op = "step" /\ lastOp'.job # None) =>
              \E i \in 1..Len(jobs) :
                 /\ jobs[i].job_id = lastOp'.job
                 /\ jobs[i].state \notin {"SUBMITTED", "SKIPPED"}
                 /\ EarlierAllFinished(jobs, i)
      ]_vars

\* C29 witness: a step has just advanced the second record of the store;
\* the first one is finished
C29_Witness ==
    /\ Len(jobs) >= 2
    /\ lastOp.op = "step" /\ lastOp.job = jobs[2].job_id
    /\ jobs[2].state \notin {"FETCHED", "SUBMITTED", "SKIPPED"}
    /\ jobs[1].state \in {"SUBMITTED", "SKIPPED"}

\* C30: raw_payload is immutable once stored.  No call (step, run or a
\* later add_jobs, a duplicate fetch with another description included)
\* changes the raw_data of a stored record or removes the record.
C30_RawPayloadImmutable ==
    [][ /\ Len(jobs') >= Len(jobs)
        /\ \A i \in 1..Len(jobs) :
              /\ jobs'[i].job_id = jobs[i].job_id
              /\ jobs'[i].raw_data = jobs[i].raw_data
      ]_vars

\* C30 witness: add_jobs was handed a posting of a stored record with other
\* content (letter case, description), after that record had been processed
C30_Witness ==
    /\ lastOp.op = "add_jobs" /\ lastOp.arg.differs
    /\ \E i \in 1..Len(jobs) :
          /\ jobs[i].state # "FETCHED"
          /\ jobs[i].raw_data \in {JsonDumps(RawA), JsonDumps(RawADup)}

\* ------------------------------------------------------------------------
\* Properties of the engine as a whole
\* ------------------------------------------------------------------------

\* the record of this row as run() leaves it when it is the only record of
\* the store and request_confirmation answers confirm
RoutedAlone(row, prof, confirm) ==
    UninterruptedRun(<<NewRow(row.job_id, JsonLoads(row.raw_data))>>, prof, Inventory,
                     [x \in {row.job_id} |-> confirm])[1]

\* C31: routing is deterministic and independent of the other records: when
\* run() has returned without an exception, every record of the store has
\* the decision, the plan and the stage that the same posting gets, under
\* the same profile, inventory and confirmation answer, when it is the only
\* record of the store
C31_RoutingIndependent ==
    (lastOp.op = "run" /\ ~lastOp.raised) =>
        \A i \in 1..Len(jobs) :
            \E confirm \in BOOLEAN :
                LET alone == RoutedAlone(jobs[i], profile, confirm)
                IN /\ jobs[i].state = alone.state
                   /\ jobs[i].decision_data = alone.decision_data
                   /\ jobs[i].plan_data = alone.plan_data

\* C32: a running run() loop that is asked to stop finishes the step in
\* flight, commits it and returns before it starts another step: after the
\* request the loop makes no step beyond the one in flight
C32_GracefulStop ==
    hist.stop # "ignored"

\* C33: run() terminates: on a store of N records the loop of run() calls
\* step() at most 5*N + 1 times, whatever the records are (a record resting
\* at HUMAN_REVIEW or at a terminal stage included)
C33_RunBounded ==
    running => hist.steps <= 5 * Len(jobs) + 1

\* a loop that took every record over all five edges returns on its
\* (5*N + 1)-th call of step(), with N = 2
C33_Witness ==
    /\ running /\ lastOp.op = "step" /\ lastOp.ret = "False"
    /\ Len(jobs) = 2 /\ hist.steps = 5 * Len(jobs) + 1
    /\ \A i \in 1..Len(jobs) : jobs[i].state = "SUBMITTED"

\* C34: resting stages are absorbing under a single worker: a record whose
\* stage is SUBMITTED, SKIPPED or HUMAN_REVIEW keeps its place, its stage and
\* all its payloads through every later step(), run() and add_jobs()
C34_RestingAbsorbing ==
    [][ \A i \in 1..Len(jobs) :
            jobs[i].state \in Resting => (i <= Len(jobs') /\ jobs'[i] = jobs[i])
      ]_vars

\* step() has just been called on a record resting at HUMAN_REVIEW with a
\* plan (confirmation was refused) while a finished record and the record
\* under review are both in the store
C34_Witness ==
    /\ lastOp.op = "step" /\ lastOp.ret = "False" /\ lastOp.job # None
    /\ \E i \in 1..Len(jobs) :
          /\ jobs[i].job_id = lastOp.job
          /\ jobs[i].state = "HUMAN_REVIEW"
          /\ jobs[i].plan_data # Null
    /\ \E i \in 1..Len(jobs) : jobs[i].state \in {"SUBMITTED", "SKIPPED"}

\* the record was sent on to PLANNED at some time: it is there, or beyond,
\* or it carries a plan
ReachedPlanned(row) ==
    row.state \in {"PLANNED", "MATERIAL_READY", "SUBMITTED"} \/ row.plan_data # Null

\* C35: with the engine's own planner (threshold 0.5) every record that
\* reaches PLANNED has a decision that passes the hard filter, recommends
\* apply and scores at least 0.70; every plan the engine commits has
\* apply = true; and no step takes a record from MATERIAL_READY to SKIPPED
C35_PlannedMeansApply ==
    [][ \A i \in 1..Len(jobs') :
          LET row == jobs'[i] IN
          /\ ReachedPlanned(row) =>
                /\ row.decision_data # Null
                /\ JsonLoads(row.decision_data).pass_hard_filter
                /\ JsonLoads(row.decision_data).recommendation = "apply"
                /\ JsonLoads(row.decision_data).match_score >= 70
          /\ row.plan_data # Null => JsonLoads(row.plan_data).apply
          /\ (i <= Len(jobs) /\ jobs[i].state = "MATERIAL_READY") => row.state # "SKIPPED"
      ]_vars

\* the step on a MATERIAL_READY record whose decision scored 0.75 has just
\* submitted it under a plan with apply = true
C35_Witness ==
    /\ lastOp.op = "step" /\ lastOp.ret = "True"
    /\ \E i \in 1..Len(jobs) :
          /\ jobs[i].job_id = lastOp.job
          /\ jobs[i].state = "SUBMITTED"
          /\ JsonLoads(jobs[i].decision_data).match_score = 75
          /\ JsonLoads(jobs[i].plan_data).apply

SameTrimmedTripleCI(r1, r2) ==
    /\ Lower(Strip(r1.company)) = Lower(Strip(r2.company))
    /\ Lower(Strip(r1.title)) = Lower(Strip(r2.title))
    /\ Lower(Strip(r1.location)) = Lower(Strip(r2.location))

\* the store holds a record for this posting: a row whose stored posting has
\* its trimmed triple
HasRecordFor(js, raw) ==
    \E i \in 1..Len(js) : SameTrimmedTripleCI(JsonLoads(js[i].raw_data), raw)

\* C37: distinct jobs are never merged: two postings handed to add_jobs
\* whose trimmed (company, title, location) triples differ up to letter case
\* get different job_ids, and the store holds a record for each of them
C37_DistinctNeverMerged ==
    \A r1, r2 \in hist.offered :
        ~SameTrimmedTripleCI(r1, r2) =>
            /\ Normalize(r1).job_id # Normalize(r2).job_id
            /\ HasRecordFor(jobs, r1) /\ HasRecordFor(jobs, r2)

\* C38 as stated: with the hard filter passing, the recommendation of a
\* returned Decision is the threshold table applied to the returned
\* (rounded) match_score: apply iff match_score >= 0.70, human_review iff
\* 0.40 <= match_score < 0.70, skip iff match_score < 0.40
C38_TableOnRoundedScore ==
    (lastOp.op = "evaluate" /\ lastOp.ret.pass_hard_filter) =>
        LET ms  == lastOp.ret.match_score
            rec == lastOp.ret.recommendation
        IN /\ rec = "apply" <=> ms >= 70
           /\ rec = "human_review" <=> (ms >= 40 /\ ms < 70)
           /\ rec = "skip" <=> ms < 40

\* C38 as amended: with the hard filter passing, the recommendation agrees
\* with the threshold table applied to the returned match_score except
\* where rounding lifts the score onto a threshold: above 0.70 it is apply,
\* between 0.40 and 0.70 human_review, below 0.40 skip; at exactly 0.70 it
\* is apply when hits/total >= 0.7 and human_review otherwise, at exactly
\* 0.40 human_review when hits/total >= 0.4 and skip otherwise
C38_TableUpToRounding ==
    (lastOp.op = "evaluate" /\ lastOp.ret.pass_hard_filter) =>
        LET ms  == lastOp.ret.match_score
            rec == lastOp.ret.recommendation
            h   == ScoreNum(lastOp.arg.job, profile)
            t   == ScoreDen(profile)
        IN /\ ms > 70 => rec = "apply"
           /\ (ms > 40 /\ ms < 70) => rec = "human_review"
           /\ ms < 40 => rec = "skip"
           /\ ms = 70 => rec = (IF 10 * h >= 7 * t THEN "apply" ELSE "human_review")
           /\ ms = 40 => rec = (IF 10 * h >= 4 * t THEN "human_review" ELSE "skip")

\* the evaluator has returned match_score 0.70 with human_review for a job
\* that has 16 of 23 must-haves and passes the hard filter
C38_Witness ==
    /\ lastOp.op = "evaluate" /\ lastOp.ret.pass_hard_filter
    /\ lastOp.ret.match_score = 70 /\ lastOp.ret.recommendation = "human_review"
    /\ Len(profile.must_have) = 23 /\ Len(lastOp.ret.strengths) = 16

====
